---- MODULE Spec2Model ----
(***************************************************************************)
(* A model of the planning service of fantastic-router: the query          *)
(* normaliser, the route validator, the single-call planner's plan         *)
(* assembly, the RBAC clamp and the two cache tiers of                     *)
(* fantastic_router_server/api/routes.py.                                  *)
(*                                                                         *)
(* Strings are TLA+ strings; a character is a string of length one, read   *)
(* with SubSeq.  Confidences are hundredths (0.3 is 30, 0.95 is 95) and    *)
(* time is whole seconds.                                                  *)
(***************************************************************************)
EXTENDS Integers, Sequences, FiniteSets, TLC

VARIABLES
  filler_order,           \* iteration order of the set filler_words in this process
  deployment,             \* the site configuration and the clients of this run
  now,                    \* time.time()
  _request_cache,         \* request key -> response
  _request_cache_ttl,     \* request key -> expiry instant
  _structural_cache,      \* structural key -> response with placeholders
  _structural_cache_ttl,  \* structural key -> expiry instant
  tasks,                  \* the plan requests: where each is, and its response
  clears,                 \* how many times clear_cache has run
  origin_request,         \* history: request key -> the response as it was stored, and when
  origin_structural,      \* history: structural key -> when its entry was stored
  arg,                    \* input of the pure function under study
  res,                    \* its results so far
  step,                   \* how many times it has been applied
  search,                 \* one call of EntityResolver.search_entity
  planner,                \* one plan request on its way through the planner
  calls                   \* the calls made to the Predictor and to the RecordSearcher

caches == <<_request_cache, _request_cache_ttl, _structural_cache, _structural_cache_ttl>>
history == <<origin_request, origin_structural>>
study == <<arg, res, step>>
ports == <<search, planner, calls>>
vars == <<filler_order, deployment, now, caches, tasks, clears, history, study, ports>>

(***************************************************************************)
(* Python str primitives                                                   *)
(***************************************************************************)
Char(s, i) == SubSeq(s, i, i)

UpperLetters == "ABCDEFGHIJKLMNOPQRSTUVWXYZ"
LowerLetters == "abcdefghijklmnopqrstuvwxyz"
DigitChars == "0123456789"

CharsOf(s) == { Char(s, i) : i \in 1..Len(s) }

UpperSet == CharsOf(UpperLetters)
LowerSet == CharsOf(LowerLetters)
DigitSet == CharsOf(DigitChars)
LetterSet == UpperSet \cup LowerSet
\* \w of the re module, on the ASCII characters used here
WordSet == LetterSet \cup DigitSet \cup {"_"}

IsUpper(c) == c \in UpperSet
IsLetter(c) == c \in LetterSet
IsDigit(c) == c \in DigitSet
IsWordChar(c) == c \in WordSet
\* \s of the re module and the characters str.strip() removes
IsSpace(c) == c = " "

\* str.lower() on one character
LowerMap ==
  [c \in UpperSet |->
     Char(LowerLetters, CHOOSE i \in 1..Len(UpperLetters) : Char(UpperLetters, i) = c)]

LowerChar(c) == IF IsUpper(c) THEN LowerMap[c] ELSE c

\* str.lower(): every character lowered, the string taken by halves
RECURSIVE lower(_)
lower(s) ==
  IF s = "" THEN ""
  ELSE IF Len(s) = 1 THEN LowerChar(s)
  ELSE lower(SubSeq(s, 1, Len(s) \div 2)) \o lower(SubSeq(s, (Len(s) \div 2) + 1, Len(s)))

RECURSIVE lstrip(_)
lstrip(s) ==
  IF s # "" /\ IsSpace(Char(s, 1)) THEN lstrip(SubSeq(s, 2, Len(s))) ELSE s

RECURSIVE rstrip(_)
rstrip(s) ==
  IF s # "" /\ IsSpace(Char(s, Len(s))) THEN rstrip(SubSeq(s, 1, Len(s) - 1)) ELSE s

strip(s) == rstrip(lstrip(s))

startswith(s, p) == Len(p) <= Len(s) /\ SubSeq(s, 1, Len(p)) = p

endswith(s, p) == Len(p) <= Len(s) /\ SubSeq(s, Len(s) - Len(p) + 1, Len(s)) = p

\* sub in s
Contains(s, sub) ==
  \E i \in 1..(Len(s) - Len(sub) + 1) : SubSeq(s, i, i + Len(sub) - 1) = sub

\* the positions of s where sub starts
Occurrences(s, sub) ==
  { i \in 1..(Len(s) - Len(sub) + 1) : SubSeq(s, i, i + Len(sub) - 1) = sub }

Min(S) == CHOOSE m \in S : \A n \in S : m <= n

\* s.replace(old, new) for a non-empty old: leftmost, non-overlapping.
\* ReplaceAt replaces the occurrence at i, the first one, and goes on after it
RECURSIVE replace(_, _, _)
ReplaceAt(s, old, new, i) ==
  SubSeq(s, 1, i - 1) \o new \o replace(SubSeq(s, i + Len(old), Len(s)), old, new)

replace(s, old, new) ==
  IF old = "" \/ Occurrences(s, old) = {} THEN s
  ELSE ReplaceAt(s, old, new, Min(Occurrences(s, old)))

\* index of the last character of the maximal run of word characters starting at i
RECURSIVE WordRunEnd(_, _)
WordRunEnd(s, i) ==
  IF i < Len(s) /\ IsWordChar(Char(s, i + 1)) THEN WordRunEnd(s, i + 1) ELSE i

\* index of the last character of the maximal run of whitespace starting at i
RECURSIVE SpaceRunEnd(_, _)
SpaceRunEnd(s, i) ==
  IF i < Len(s) /\ IsSpace(Char(s, i + 1)) THEN SpaceRunEnd(s, i + 1) ELSE i

(***************************************************************************)
(* _normalize_query                                                        *)
(***************************************************************************)
filler_words ==
  { "show me", "show", "get", "find", "look up", "search for",
    "display", "view", "see", "give me", "bring up" }

\* The loop `for filler in filler_words` walks a set of str, whose order is
\* fixed within one process and differs between processes (string hashing is
\* seeded per process).  Only the relative order of fillers that can match
\* the same query matters: "show" and "show me".
FillerOrders ==
  { <<"show me", "show", "get", "find", "look up", "search for",
      "display", "view", "see", "give me", "bring up">>,
    <<"show", "show me", "get", "find", "look up", "search for",
      "display", "view", "see", "give me", "bring up">> }

\* for filler in filler_words: if startswith(filler + ' '): cut, strip, break
RECURSIVE StripFiller(_, _, _)
StripFiller(order, i, normalized) ==
  IF i > Len(order) THEN normalized
  ELSE IF startswith(normalized, order[i] \o " ")
       THEN strip(SubSeq(normalized, Len(order[i]) + 1, Len(normalized)))
       ELSE StripFiller(order, i + 1, normalized)

\* re.sub(r'(\w+)s\s+(\w+)', r"\1's \2", s), scanning from position i.
\* A match at i needs a run of word characters i..j of length at least 2 that
\* ends in "s" (the group gives back characters until "s" is followed by
\* whitespace, which only the last character of the run is), then whitespace
\* j+1..k, then the whole following run of word characters k+1..m.
RECURSIVE PossessiveSub(_, _)
PossessiveSub(s, i) ==
  IF i > Len(s) THEN ""
  ELSE
    LET j == WordRunEnd(s, i)
        k == SpaceRunEnd(s, j + 1)
        m == WordRunEnd(s, k + 1)
        matches ==
          /\ IsWordChar(Char(s, i))
          /\ j > i
          /\ Char(s, j) = "s"
          /\ j + 1 <= Len(s)
          /\ IsSpace(Char(s, j + 1))
          /\ k + 1 <= Len(s)
          /\ IsWordChar(Char(s, k + 1))
    IN IF matches
       THEN SubSeq(s, i, j - 1) \o "'s " \o SubSeq(s, k + 1, m) \o PossessiveSub(s, m + 1)
       ELSE Char(s, i) \o PossessiveSub(s, i + 1)

\* re.sub(r'\b(w1|w2|...)\b', repl, s), scanning from position i: a match is a
\* whole run of word characters equal to one of the words
RECURSIVE WordSub(_, _, _, _)
WordSub(s, i, words, repl) ==
  IF i > Len(s) THEN ""
  ELSE IF IsWordChar(Char(s, i))
       THEN LET j == WordRunEnd(s, i)
                w == SubSeq(s, i, j)
            IN (IF w \in words THEN repl ELSE w) \o WordSub(s, j + 1, words, repl)
       ELSE Char(s, i) \o WordSub(s, i + 1, words, repl)

\* order is the iteration order of filler_words in the running process
_normalize_query(order, query) ==
  LET n0 == strip(lower(query))
      n1 == StripFiller(order, 1, n0)
      n2 == PossessiveSub(n1, 1)
      n3 == WordSub(n2, 1, {"properties", "property"}, "properties")
      n4 == WordSub(n3, 1, {"income", "earnings", "salary"}, "income")
      n5 == WordSub(n4, 1, {"contact", "info", "information"}, "contact")
  IN n5

(***************************************************************************)
(* Optional[str]: None is the empty tuple, a str s is <<s>>                 *)
(***************************************************************************)
None == <<>>
Some(s) == <<s>>
\* truthiness of an Optional[str]: not None and not ''
Truthy(o) == o # None /\ o[1] # ""

(***************************************************************************)
(* Route validation: routes.py _pattern_to_regex / _validate_route and the *)
(* planner's copies _pattern_to_regex / _validate_llm_route                *)
(***************************************************************************)
RemoveChar(s, c) == replace(s, c, "")

\* index of the last character of the maximal run of [a-zA-Z_] starting at i
RECURSIVE NameRunEnd(_, _)
NameRunEnd(s, i) ==
  IF i < Len(s) /\ (IsLetter(Char(s, i + 1)) \/ Char(s, i + 1) = "_")
  THEN NameRunEnd(s, i + 1) ELSE i

\* re.sub(r'[a-zA-Z_]+', r'[^/]+', s), scanning from position i
RECURSIVE NameRunSub(_, _)
NameRunSub(s, i) ==
  IF i > Len(s) THEN ""
  ELSE IF IsLetter(Char(s, i)) \/ Char(s, i) = "_"
       THEN "[^/]+" \o NameRunSub(s, NameRunEnd(s, i) + 1)
       ELSE Char(s, i) \o NameRunSub(s, i + 1)

\* if not regex.startswith('^'): regex = '^' + regex
AnchorStart(regex) == IF startswith(regex, "^") THEN regex ELSE "^" \o regex

\* if not regex.endswith('$'): regex = regex + '$'
AnchorEnd(regex) == IF endswith(regex, "$") THEN regex ELSE regex \o "$"

_pattern_to_regex(pattern) ==
  IF pattern = "" THEN ""
  ELSE AnchorEnd(AnchorStart(NameRunSub(RemoveChar(RemoveChar(pattern, "{"), "}"), 1)))

\* re.match(regex, s) for the regexes _pattern_to_regex builds from patterns
\* over letters, digits, "_", "-", "/", "{" and "}": "^", "$", the class
\* "[^/]+" and literal characters.  ri and si are the positions reached in
\* the regex and in the string.
\* A run of literal characters ri..e is matched at once.
LiteralRunEnd(regex, ri) ==
  Min({ j \in ri..Len(regex) : j = Len(regex) \/ Char(regex, j + 1) \in {"^", "$", "["} })

RECURSIVE ReMatchFrom(_, _, _, _)
MatchLiterals(regex, ri, s, si, e) ==
  /\ si + (e - ri) <= Len(s)
  /\ SubSeq(s, si, si + (e - ri)) = SubSeq(regex, ri, e)
  /\ ReMatchFrom(regex, e + 1, s, si + (e - ri) + 1)

ReMatchFrom(regex, ri, s, si) ==
  IF ri > Len(regex) THEN TRUE
  ELSE IF Char(regex, ri) = "^" THEN si = 1 /\ ReMatchFrom(regex, ri + 1, s, si)
  ELSE IF Char(regex, ri) = "$" THEN si = Len(s) + 1 /\ ReMatchFrom(regex, ri + 1, s, si)
  ELSE IF ri + 4 <= Len(regex) /\ SubSeq(regex, ri, ri + 4) = "[^/]+"
       THEN \E k \in si..Len(s) :
              /\ \A t \in si..k : Char(s, t) # "/"
              /\ ReMatchFrom(regex, ri + 5, s, k + 1)
       ELSE MatchLiterals(regex, ri, s, si, LiteralRunEnd(regex, ri))

re_match(regex, s) == ReMatchFrom(regex, 1, s, 1)

\* `if not regex_pattern: continue`, then `if re.match(regex_pattern, route)`
RegexAccepts(regex_pattern, route) == regex_pattern # "" /\ re_match(regex_pattern, route)

\* the patterns of route_patterns, in order, that accept the route
MatchingPatterns(route, route_patterns) ==
  SelectSeq(route_patterns,
            LAMBDA p : p.pattern # "" /\ RegexAccepts(_pattern_to_regex(p.pattern), route))

\* the loop of _validate_route returns at the first pattern that accepts
FirstMatch(ms) ==
  IF Len(ms) > 0
  THEN [is_valid |-> TRUE, matched_pattern |-> ms[1].pattern]
  ELSE [is_valid |-> FALSE, matched_pattern |-> ""]

\* (is_valid, matched_pattern) of routes.py; the error message is not modelled
_validate_route(route, route_patterns) ==
  IF route = "" \/ ~startswith(route, "/")
  THEN [is_valid |-> FALSE, matched_pattern |-> ""]
  ELSE FirstMatch(MatchingPatterns(route, route_patterns))

\* SingleCallActionPlanner._pattern_to_regex: the same text as routes.py
planner_pattern_to_regex(pattern) ==
  IF pattern = "" THEN ""
  ELSE AnchorEnd(AnchorStart(NameRunSub(RemoveChar(RemoveChar(pattern, "{"), "}"), 1)))

_validate_llm_route(route, route_patterns) ==
  /\ route # ""
  /\ startswith(route, "/")
  /\ \E i \in 1..Len(route_patterns) :
       /\ route_patterns[i].pattern # ""
       /\ RegexAccepts(planner_pattern_to_regex(route_patterns[i].pattern), route)

\* SingleCallActionPlanner._get_fallback_route
_get_fallback_route(route_patterns) ==
  LET searches == SelectSeq(route_patterns, LAMBDA p : Contains(p.pattern, "search"))
  IN IF Len(searches) > 0
     THEN replace(searches[1].pattern, "{entity_type}", "landlords")
     ELSE IF Len(route_patterns) > 0
          THEN replace(replace(replace(route_patterns[1].pattern,
                                       "{entity_type}", "landlords"),
                               "{entity_id}", "search"),
                       "{view_type}", "overview")
          ELSE "/landlords/search"

\* entity_type_map.get(entity_table, 'landlords') of _validate_and_fix_route
entity_type_of_table(entity_table) ==
  IF entity_table = "users" THEN "landlords"
  ELSE IF entity_table = "properties" THEN "properties"
  ELSE IF entity_table = "leases" THEN "leases"
  ELSE "landlords"

\* routes.py _validate_and_fix_route: the route it returns, or raised = TRUE
\* for the ValueError
_validate_and_fix_route(route, action_plan, route_patterns) ==
  IF _validate_route(route, route_patterns).is_valid
  THEN [raised |-> FALSE, route |-> route]
  ELSE IF Len(action_plan.entities) > 0
       THEN LET entity == action_plan.entities[1]
                valid_route == "/" \o entity_type_of_table(entity.table)
                                   \o "/" \o entity.id \o "/overview"
            IN IF _validate_route(valid_route, route_patterns).is_valid
               THEN [raised |-> FALSE, route |-> valid_route]
               ELSE [raised |-> TRUE, route |-> route]
       ELSE IF _validate_route("/landlords/search", route_patterns).is_valid
            THEN [raised |-> FALSE, route |-> "/landlords/search"]
            ELSE [raised |-> TRUE, route |-> route]

(***************************************************************************)
(* RBAC: FantasticRouter._route_matches_pattern / _check_route_permissions *)
(***************************************************************************)
RECURSIVE lstrip_char(_, _)
lstrip_char(s, c) ==
  IF s # "" /\ Char(s, 1) = c THEN lstrip_char(SubSeq(s, 2, Len(s)), c) ELSE s

RECURSIVE rstrip_char(_, _)
rstrip_char(s, c) ==
  IF s # "" /\ Char(s, Len(s)) = c THEN rstrip_char(SubSeq(s, 1, Len(s) - 1), c) ELSE s

\* s.split(c) for a one-character separator: "" gives <<"">>.  SplitAt cuts
\* at i, the first separator, and goes on after it
RECURSIVE split_char(_, _)
SplitAt(s, c, i) == <<SubSeq(s, 1, i - 1)>> \o split_char(SubSeq(s, i + 1, Len(s)), c)

split_char(s, c) ==
  IF Occurrences(s, c) = {} THEN <<s>> ELSE SplitAt(s, c, Min(Occurrences(s, c)))

\* the comparison of the parts of _route_matches_pattern
PartsMatch(route_parts, pattern_parts) ==
  /\ Len(route_parts) = Len(pattern_parts)
  /\ \A i \in 1..Len(route_parts) :
       \/ startswith(pattern_parts[i], "{") /\ endswith(pattern_parts[i], "}")
       \/ route_parts[i] = pattern_parts[i]

_route_matches_pattern(route, pattern) ==
  PartsMatch(split_char(rstrip_char(lstrip_char(route, "/"), "/"), "/"),
             split_char(rstrip_char(lstrip_char(pattern, "/"), "/"), "/"))

\* The loop of _check_route_permissions returns at the first pattern the
\* route matches, ms[1]: whether its required_roles admit user_role.
\* required_roles is a tuple of roles; None and [] are both the empty tuple
RolesAdmit(ms, user_role) ==
  IF Len(ms) > 0
  THEN IF Len(ms[1].required_roles) > 0
       THEN \E i \in 1..Len(ms[1].required_roles) : ms[1].required_roles[i] = user_role
       ELSE TRUE
  ELSE TRUE

_check_route_permissions(route_patterns, route, user_role) ==
  RolesAdmit(SelectSeq(route_patterns, LAMBDA p : _route_matches_pattern(route, p.pattern)),
             user_role)

(***************************************************************************)
(* Structural keys: routes.py _extract_structural_pattern,                 *)
(* _matches_structural_pattern, _extract_entities_from_query               *)
(***************************************************************************)
IsLower(c) == c \in LowerSet

\* str(i) for the small indices enumerate() yields here
IntToStr(i) ==
  IF i < 10 THEN Char(DigitChars, i + 1)
  ELSE Char(DigitChars, (i \div 10) + 1) \o Char(DigitChars, (i % 10) + 1)

\* a dict with str keys in insertion order, as a tuple of <<key, value>>:
\* d[key] = value keeps the position of a key already present
DictSet(d, key, value) ==
  IF \E i \in 1..Len(d) : d[i][1] = key
  THEN [i \in 1..Len(d) |-> IF d[i][1] = key THEN <<key, value>> ELSE d[i]]
  ELSE Append(d, <<key, value>>)

\* \b before position i / after position e
BoundaryBefore(s, i) == IsWordChar(Char(s, i)) /\ (i = 1 \/ ~IsWordChar(Char(s, i - 1)))
BoundaryAfter(s, e) == IsWordChar(Char(s, e)) /\ (e = Len(s) \/ ~IsWordChar(Char(s, e + 1)))

RECURSIVE LowerRunEnd(_, _)
LowerRunEnd(s, i) ==
  IF i < Len(s) /\ IsLower(Char(s, i + 1)) THEN LowerRunEnd(s, i + 1) ELSE i

\* ends of the strings [A-Z][a-z]+(?:\s+[A-Z][a-z]+)* can match from position i
RECURSIVE CapChainEnds(_, _)
CapChainEnds(s, i) ==
  IF i + 1 <= Len(s) /\ IsUpper(Char(s, i)) /\ IsLower(Char(s, i + 1))
  THEN LET e == LowerRunEnd(s, i + 1)
           k == SpaceRunEnd(s, e + 1)
       IN {e} \cup (IF e + 1 <= Len(s) /\ IsSpace(Char(s, e + 1))
                    THEN CapChainEnds(s, k + 1) ELSE {})
  ELSE {}

Max(S) == CHOOSE m \in S : \A n \in S : n <= m

\* finditer of \b([A-Z][a-z]+(?:\s+[A-Z][a-z]+)*)'s\b (possessive = TRUE) or of
\* \b([A-Z][a-z]+(?:\s+[A-Z][a-z]+)*)\b, from position i: the values of group 1
RECURSIVE PersonMatches(_, _, _)
PersonMatches(s, i, possessive) ==
  IF i > Len(s) THEN <<>>
  ELSE
    LET ends == { e \in CapChainEnds(s, i) :
                    IF possessive
                    THEN /\ e + 2 <= Len(s)
                         /\ SubSeq(s, e + 1, e + 2) = "'s"
                         /\ BoundaryAfter(s, e + 2)
                    ELSE BoundaryAfter(s, e) }
    IN IF BoundaryBefore(s, i) /\ ends # {}
       THEN <<SubSeq(s, i, Max(ends))>>
              \o PersonMatches(s, Max(ends) + (IF possessive THEN 3 ELSE 1), possessive)
       ELSE PersonMatches(s, i + 1, possessive)

\* finditer of \b(\d+)\b (digits = TRUE) or of \b([A-Za-z]+)\b, from position
\* i: the whole runs of word characters made of digits only, of letters only
RECURSIVE RunMatches(_, _, _)
RunMatches(s, i, digits) ==
  IF i > Len(s) THEN <<>>
  ELSE IF IsWordChar(Char(s, i))
       THEN LET j == WordRunEnd(s, i)
                ok == \A t \in i..j :
                        IF digits THEN IsDigit(Char(s, t)) ELSE IsLetter(Char(s, t))
            IN (IF ok THEN <<SubSeq(s, i, j)>> ELSE <<>>) \o RunMatches(s, j + 1, digits)
       ELSE RunMatches(s, i + 1, digits)

\* the loop over one regex of entity_patterns: state is <<pattern_query, entity_mapping>>
RECURSIVE ReplaceEntities(_, _, _, _)
ReplaceEntities(st, matches, entity_type, i) ==
  IF i > Len(matches) THEN st
  ELSE LET placeholder == "{" \o entity_type \o "_" \o IntToStr(i - 1) \o "}"
       IN ReplaceEntities(<<replace(st[1], matches[i], placeholder),
                            DictSet(st[2], placeholder, matches[i])>>,
                          matches, entity_type, i + 1)

\* the loop over action_plan['entities']: state is <<pattern_route, entity_mapping>>
RECURSIVE ReplaceEntityIds(_, _, _, _)
ReplaceEntityIds(st, route, entities, i) ==
  IF i > Len(entities) THEN st
  ELSE LET entity_id == entities[i].id
           placeholder == "{ENTITY_ID_" \o IntToStr(i - 1) \o "}"
       IN IF entity_id # "" /\ Contains(route, entity_id)
          THEN ReplaceEntityIds(<<replace(st[1], entity_id, placeholder),
                                  DictSet(st[2], placeholder, entity_id)>>,
                                route, entities, i + 1)
          ELSE ReplaceEntityIds(st, route, entities, i + 1)

\* the loops over entity_patterns: <<pattern_query, entity_mapping>> for the
\* normalised query
PatternQuery(normalized_query) ==
  ReplaceEntities(
    ReplaceEntities(
      ReplaceEntities(
        ReplaceEntities(<<normalized_query, <<>>>>,
                        PersonMatches(normalized_query, 1, TRUE), "PERSON", 1),
        PersonMatches(normalized_query, 1, FALSE), "PERSON", 1),
      RunMatches(normalized_query, 1, TRUE), "NUMBER", 1),
    RunMatches(normalized_query, 1, FALSE), "WORD", 1)

\* the end of _extract_structural_pattern: pattern is <<pattern_route, entity_mapping>>
StructuralKey(pattern_query, pattern) ==
  IF Contains(pattern[1], "{") /\ ~Contains(pattern[1], "ENTITY_ID_")
  THEN <<"", <<>>>>
  ELSE <<pattern_query \o "|" \o pattern[1], pattern[2]>>

\* the loop over the entities of the plan, started from st, the result of
\* the loops over entity_patterns
PatternRoute(st, route, entities) ==
  StructuralKey(st[1], ReplaceEntityIds(<<route, st[2]>>, route, entities, 1))

\* (structural_key, entity_mapping) for an already normalised query
ExtractStructuralPattern(normalized_query, action_plan) ==
  IF action_plan.route = "" \/ Contains(action_plan.route, "{") THEN <<"", <<>>>>
  ELSE PatternRoute(PatternQuery(normalized_query), action_plan.route, action_plan.entities)

_extract_structural_pattern(order, query, action_plan) ==
  ExtractStructuralPattern(_normalize_query(order, query), action_plan)

\* index of the last character of the maximal run of non-whitespace starting at i
NonSpaceRunEnd(s, i) ==
  Min({ j \in i..Len(s) : j = Len(s) \/ IsSpace(Char(s, j + 1)) })

\* s.split() from position i: the maximal runs of non-whitespace
RECURSIVE SplitFrom(_, _)
WordAt(s, i, e) == <<SubSeq(s, i, e)>> \o SplitFrom(s, e + 1)

SplitFrom(s, i) ==
  IF i > Len(s) THEN <<>>
  ELSE IF IsSpace(Char(s, i)) THEN SplitFrom(s, i + 1)
  ELSE WordAt(s, i, NonSpaceRunEnd(s, i))

split_ws(s) == SplitFrom(s, 1)

\* the comparison of the words of _matches_structural_pattern
WordsMatch(query_words, pattern_words) ==
  /\ Len(query_words) = Len(pattern_words)
  /\ \A i \in 1..Len(query_words) :
       (~startswith(pattern_words[i], "{") /\ ~endswith(pattern_words[i], "}"))
         => query_words[i] = pattern_words[i]

_matches_structural_pattern(order, query, pattern_query) ==
  WordsMatch(split_ws(_normalize_query(order, query)),
             split_ws(_normalize_query(order, pattern_query)))

RECURSIVE ExtractEntitiesLoop(_, _, _, _)
ExtractEntitiesLoop(mapping, query_words, pattern_words, i) ==
  IF i > Len(query_words) \/ i > Len(pattern_words) THEN mapping
  ELSE IF startswith(pattern_words[i], "{") /\ endswith(pattern_words[i], "}")
       THEN ExtractEntitiesLoop(DictSet(mapping, pattern_words[i], query_words[i]),
                                query_words, pattern_words, i + 1)
       ELSE ExtractEntitiesLoop(mapping, query_words, pattern_words, i + 1)

_extract_entities_from_query(order, query, pattern_query) ==
  ExtractEntitiesLoop(<<>>, split_ws(_normalize_query(order, query)),
                      split_ws(_normalize_query(order, pattern_query)), 1)

\* structural_key.split('|', 1): the text before and after the first "|";
\* a key without "|" has one part only, and unpacking it raises ValueError
HasBar(key) == Contains(key, "|")
BarIndex(key) == CHOOSE i \in 1..Len(key) : Char(key, i) = "|" /\ \A j \in 1..(i - 1) : Char(key, j) # "|"
PatternQueryOf(key) == SubSeq(key, 1, BarIndex(key) - 1)
PatternRouteOf(key) == SubSeq(key, BarIndex(key) + 1, Len(key))

(***************************************************************************)
(* SingleCallActionPlanner._build_action_plan and FantasticRouter.plan     *)
(***************************************************************************)
ActionTypeValues == {"NAVIGATE", "QUERY", "MUTATION", "CREATE", "EDIT", "DELETE"}

Max2(a, b) == IF a >= b THEN a ELSE b

\* the loop over route_info['parameters']: state is <<resolved_route, parameters>>
RECURSIVE BuildParameters(_, _, _, _)
BuildParameters(st, params, entities, i) ==
  IF i > Len(params) THEN st
  ELSE IF params[i].value = "ENTITY_ID_PLACEHOLDER" /\ Len(entities) > 0
       THEN BuildParameters(
              <<replace(st[1], "ENTITY_ID_PLACEHOLDER", entities[1].id),
                Append(st[2], [name |-> params[i].name, value |-> entities[1].id,
                               source |-> params[i].source])>>,
              params, entities, i + 1)
       ELSE BuildParameters(
              <<st[1], Append(st[2], [name |-> params[i].name, value |-> params[i].value,
                                      source |-> params[i].source])>>,
              params, entities, i + 1)

\* float(llm_response.get('overall_confidence', 0.5)), 0.5 on ValueError/TypeError
ParseConfidence(c) == IF c.kind = "float" THEN c.hundredths ELSE 50

\* route_info.get('resolved_route', '/')
LlmRoute(llm_response) ==
  IF llm_response.resolved_route = "" THEN "/" ELSE llm_response.resolved_route

\* _build_action_plan once the route of the answer has been validated.
\* raised = TRUE: the ActionPlan constructor rejects a confidence outside [0, 1]
BuildActionPlan(route_patterns, llm_response, entities, is_valid_route) ==
  LET route0 == IF is_valid_route THEN LlmRoute(llm_response)
                ELSE _get_fallback_route(route_patterns)
      built == BuildParameters(<<route0, <<>>>>, llm_response.parameters, entities, 1)
      action_type == IF llm_response.action_type \in ActionTypeValues
                     THEN llm_response.action_type ELSE "NAVIGATE"
      parsed == ParseConfidence(llm_response.overall_confidence)
      confidence == IF is_valid_route THEN parsed ELSE Max2(10, parsed - 30)
  IN [raised |-> confidence < 0 \/ confidence > 100,
      plan |-> [action_type |-> action_type,
                route |-> built[1],
                confidence |-> confidence,
                parameters |-> built[2],
                entities |-> entities,
                reasoning |-> "LLM Analysis: " \o llm_response.reasoning,
                matched_pattern |-> llm_response.matched_pattern]]

_build_action_plan(route_patterns, llm_response, entities) ==
  BuildActionPlan(route_patterns, llm_response, entities,
                  _validate_llm_route(LlmRoute(llm_response), route_patterns))

\* FantasticRouter.plan after the planner has returned action_plan
ApplyRBAC(route_patterns, action_plan, user_role) ==
  IF Truthy(user_role) /\ ~_check_route_permissions(route_patterns, action_plan.route, user_role[1])
  THEN [action_plan EXCEPT
          !.confidence = 0,
          !.reasoning = @ \o "\nAccess denied: Insufficient permissions for this route"]
  ELSE action_plan

(***************************************************************************)
(* The cache tiers of routes.py                                            *)
(***************************************************************************)
CACHE_TTL_SECONDS == 300
STRUCTURAL_CACHE_TTL_SECONDS == 1800

\* a dict as a function: d[k] = v and del d[k]
DictPut(d, k, v) == [x \in (DOMAIN d) \cup {k} |-> IF x = k THEN v ELSE d[x]]
DictDel(d, k) == [x \in (DOMAIN d) \ {k} |-> d[x]]

\* a key over the query as it was sent
RawKey(query, user_id, user_role) == <<query, user_id, user_role>>

\* a key over the query alone
QueryOnlyKey(query, user_id, user_role) == <<strip(lower(query)), None, None>>

\* md5 of json.dumps of the three fields: the digest is taken to separate
\* distinct triples, so the key is the triple itself
_generate_request_cache_key(query, user_id, user_role) ==
  <<strip(lower(query)), user_id, user_role>>

\* _get_cached_response that never returns an entry
NeverCached(cache, ttl_cache, cache_key, t) ==
  [found |-> FALSE, cache |-> cache, ttl_cache |-> ttl_cache]

\* _get_cached_response without the TTL comparison
NeverExpires(cache, ttl_cache, cache_key, t) ==
  [found |-> cache_key \in DOMAIN cache, cache |-> cache, ttl_cache |-> ttl_cache]

\* _get_cached_response with the del of the value and not of the expiry
EvictsValueOnly(cache, ttl_cache, cache_key, t) ==
  IF cache_key \notin DOMAIN cache
  THEN [found |-> FALSE, cache |-> cache, ttl_cache |-> ttl_cache]
  ELSE IF t > ttl_cache[cache_key]
       THEN [found |-> FALSE, cache |-> DictDel(cache, cache_key), ttl_cache |-> ttl_cache]
       ELSE [found |-> TRUE, cache |-> cache, ttl_cache |-> ttl_cache]

\* _get_cached_response with the miss on an expired entry and no del
ReportsMissOnly(cache, ttl_cache, cache_key, t) ==
  [found |-> cache_key \in DOMAIN cache /\ t <= ttl_cache[cache_key],
   cache |-> cache, ttl_cache |-> ttl_cache]

\* _get_cached_response on the given tier at time t: whether an entry is
\* returned, and the tier after the lazy removal of an expired entry
_get_cached_response(cache, ttl_cache, cache_key, t) ==
  IF cache_key \notin DOMAIN cache
  THEN [found |-> FALSE, cache |-> cache, ttl_cache |-> ttl_cache]
  ELSE IF t > ttl_cache[cache_key]
       THEN [found |-> FALSE, cache |-> DictDel(cache, cache_key),
             ttl_cache |-> DictDel(ttl_cache, cache_key)]
       ELSE [found |-> TRUE, cache |-> cache, ttl_cache |-> ttl_cache]

\* _cache_response: the ttl of the tier
TtlSeconds(cache_type) ==
  IF cache_type = "request" THEN CACHE_TTL_SECONDS ELSE STRUCTURAL_CACHE_TTL_SECONDS

\* the classification of duration_ms in plan_route
PerfLevel(duration_ms) ==
  IF duration_ms < 1000 THEN "excellent"
  ELSE IF duration_ms < 3000 THEN "good"
  ELSE IF duration_ms < 5000 THEN "acceptable"
  ELSE "slow"

\* a hit that also resets the count of Predictor calls
RequestHitNoCalls(cached_response, duration_ms) ==
  [cached_response EXCEPT
     !.performance.duration_ms = duration_ms,
     !.performance.cache_hits = 1,
     !.performance.cache_type = "request",
     !.performance.llm_calls = 0]

\* plan_route on a request-cache hit: the cached dict gets the three
\* performance fields of this request and is what the response is built from
RequestHit(cached_response, duration_ms) ==
  [cached_response EXCEPT
     !.performance.duration_ms = duration_ms,
     !.performance.cache_hits = 1,
     !.performance.cache_type = "request"]

\* structural_response_str.replace(str(value), placeholder) for every item of
\* entity_mapping, on one string of the serialized response
RECURSIVE ReplaceValues(_, _, _)
ReplaceValues(str, mapping, i) ==
  IF i > Len(mapping) THEN str
  ELSE ReplaceValues(replace(str, mapping[i][2], mapping[i][1]), mapping, i + 1)

\* response_str.replace(placeholder, str(value)) for every item of
\* entity_mapping, on one string of the serialized entry
RECURSIVE ReplacePlaceholders(_, _, _)
ReplacePlaceholders(str, mapping, i) ==
  IF i > Len(mapping) THEN str
  ELSE ReplacePlaceholders(replace(str, mapping[i][1], mapping[i][2]), mapping, i + 1)

\* The replacements run over the whole JSON text of a response.  They are
\* applied here to the string values the model carries, F being the
\* replacement on one string; the text of the keys is not carried.
MapPlan(action_plan, F(_)) ==
  [action_plan EXCEPT
     !.action_type = F(@),
     !.route = F(@),
     !.reasoning = F(@),
     !.matched_pattern = F(@),
     !.parameters =
        [i \in 1..Len(@) |-> [name |-> F(@[i].name), value |-> F(@[i].value),
                              source |-> F(@[i].source)]],
     !.entities =
        [i \in 1..Len(@) |-> [@[i] EXCEPT !.id = F(@), !.name = F(@), !.table = F(@)]]]

MapOptional(o, F(_)) == IF o = None THEN None ELSE Some(F(o[1]))

\* the response around an action plan that has been mapped already
MapResponse(response, mapped_plan, F(_)) ==
  [response EXCEPT
     !.action_plan = mapped_plan,
     !.performance.level = F(@),
     !.performance.cache_type = F(@),
     !.metadata.user_id = MapOptional(@, F),
     !.metadata.user_role = MapOptional(@, F)]

\* json.loads of the replaced text fails when a value was replaced inside a
\* token that is not a string: true (success), null (an absent user_id or
\* user_role).  The queries and ids used here have no token made of digits
\* only, so no number of the text is touched.
BreaksToken(token, mapping) ==
  \E i \in 1..Len(mapping) : mapping[i][2] # "" /\ Contains(token, mapping[i][2])

JsonBroken(response, mapping) ==
  \/ BreaksToken("true", mapping)
  \/ /\ response.metadata.user_id = None \/ response.metadata.user_role = None
     /\ BreaksToken("null", mapping)

NoResponse == [success |-> FALSE]

\* Names bound at module level in routes.py: time, hashlib, json, re.  copy
\* is imported inside _cache_response only, so it is not bound in
\* _apply_structural_cache.
copy_is_bound == FALSE

\* _apply_structural_cache on an entry the tier returned: the response
\* rebuilt from it, or NoResponse for None.  copy.deepcopy raises NameError,
\* which the handler turns into None.
_apply_structural_cache(cached, entity_mapping) ==
  IF ~copy_is_bound THEN NoResponse
  ELSE LET reconstructed_response ==
             MapResponse(cached,
                         MapPlan(cached.action_plan,
                                 LAMBDA s : ReplacePlaceholders(s, entity_mapping, 1)),
                         LAMBDA s : ReplacePlaceholders(s, entity_mapping, 1))
       IN IF Contains(reconstructed_response.action_plan.route, "{")
          THEN NoResponse
          ELSE reconstructed_response

(***************************************************************************)
(* Site configurations, routers, clients, Predictor answers and the store  *)
(***************************************************************************)
P_detail ==
  [pattern |-> "/{entity_type}/{entity_id}/{view_type}", name |-> "entity_detail_view",
   required_roles |-> <<>>]
P_search ==
  [pattern |-> "/{entity_type}/search", name |-> "entity_search", required_roles |-> <<>>]
P_admin ==
  [pattern |-> "/admin/{section}", name |-> "admin_section", required_roles |-> <<"admin">>]

\* the configuration DependencyContainer._load_config falls back to
DefaultConfig == <<P_detail>>
\* a configuration with a role-restricted pattern and a search pattern
AppConfig == <<P_admin, P_search, P_detail>>
\* route_patterns defaults to [] when the configuration declares no routes
EmptyConfig == <<>>

\* DependencyContainer._create_router: each RoutePattern is built from
\* pattern, name, description, intent_patterns and parameters; required_roles
\* is not passed, so it takes its default None
_create_router(config) ==
  [i \in 1..Len(config) |-> [config[i] EXCEPT !.required_roles = <<>>]]

Anonymous == [user_id |-> None, user_role |-> None]
PlainUser == [user_id |-> Some("u1"), user_role |-> Some("user")]
AdminUser == [user_id |-> Some("u2"), user_role |-> Some("admin")]

MaxRequests == 3
MaxInFlight == 2
MaxClears == 1
MaxTime == 2100

\* One run of the service: the declared configuration, how the router was
\* obtained ("container": get_router builds it with _create_router;
\* "injected": the embedding application supplies a FantasticRouter built on
\* its own SiteConfiguration), the iteration orders of filler_words the
\* process may have, and the traffic: the queries and clients, how many
\* requests arrive, how often the cache is cleared, and the clock.
Deployment(config, router, orders, queries, clients, requests, clearings, ticks) ==
  [config |-> config,
   route_patterns |-> IF router = "container" THEN _create_router(config) ELSE config,
   filler_orders |-> orders,
   queries |-> queries,
   clients |-> clients,
   requests |-> requests,
   clearings |-> clearings,
   ticks |-> ticks]

Deployments ==
  { \* people: concurrent misses, exact and structural reuse
    Deployment(AppConfig, "container", FillerOrders,
               {"show me Michael's properties", "Michael's properties",
                "MICHAEL'S properties ", "show me Sarah's properties"},
               {PlainUser}, MaxRequests, MaxClears, {}),
    \* one query over a long time: expiry of both tiers
    Deployment(AppConfig, "container", FillerOrders,
               {"admin users"},
               {PlainUser}, MaxRequests, MaxClears,
               {CACHE_TTL_SECONDS, STRUCTURAL_CACHE_TTL_SECONDS}),
    \* a role-restricted section, served by the container's router
    Deployment(AppConfig, "container", FillerOrders,
               {"admin users"},
               {PlainUser, AdminUser}, MaxRequests, 0, {}),
    \* the same section, served by an injected router
    Deployment(AppConfig, "injected", FillerOrders,
               {"admin users"},
               {Anonymous, PlainUser, AdminUser}, MaxRequests - 1, 0, {}),
    \* the default configuration: an identifier with a "/" in it, a
    \* Predictor that may give the template back, and a name whose letters
    \* are within the JSON literal true
    Deployment(DefaultConfig, "container", FillerOrders,
               {"show me Pat's properties", "show me Rue's properties"},
               {Anonymous}, MaxRequests - 1, 0, {}),
    \* no route declared, and a Predictor that may be sure beyond 1
    Deployment(EmptyConfig, "container", FillerOrders,
               {"all of it"},
               {PlainUser}, MaxRequests - 1, 0, {}) }

AllQueries == UNION { d.queries : d \in Deployments }

Confidence(h) == [kind |-> "float", hundredths |-> h]

\* the Predictor's answer for a person's view: the id is left to the resolver
PersonAnswer(entity_name) ==
  [resolved_route |-> "/landlords/ENTITY_ID_PLACEHOLDER/properties",
   matched_pattern |-> P_detail.pattern,
   parameters |-> <<[name |-> "entity_id", value |-> "ENTITY_ID_PLACEHOLDER", source |-> "entity"]>>,
   action_type |-> "NAVIGATE",
   overall_confidence |-> Confidence(90),
   reasoning |-> "detail view",
   entity_resolution |-> <<entity_name>>]

\* a route no template has
HallucinatedAnswer ==
  [resolved_route |-> "/reports/2024/q1/summary",
   matched_pattern |-> P_detail.pattern,
   parameters |-> <<>>,
   action_type |-> "NAVIGATE",
   overall_confidence |-> Confidence(90),
   reasoning |-> "report",
   entity_resolution |-> <<>>]

AdminAnswer ==
  [resolved_route |-> "/admin/users",
   matched_pattern |-> P_admin.pattern,
   parameters |-> <<[name |-> "section", value |-> "users", source |-> "literal"]>>,
   action_type |-> "NAVIGATE",
   overall_confidence |-> Confidence(80),
   reasoning |-> "admin section",
   entity_resolution |-> <<>>]

\* the template itself, its slot left unfilled
TemplateAnswer ==
  [resolved_route |-> "/landlords/{entity_id}/properties",
   matched_pattern |-> P_detail.pattern,
   parameters |-> <<>>,
   action_type |-> "LIST",
   overall_confidence |-> [kind |-> "missing", hundredths |-> 0],
   reasoning |-> "unfilled",
   entity_resolution |-> <<>>]

OverconfidentAnswer ==
  [resolved_route |-> "/landlords/search",
   matched_pattern |-> P_search.pattern,
   parameters |-> <<>>,
   action_type |-> "QUERY",
   overall_confidence |-> Confidence(150),
   reasoning |-> "sure",
   entity_resolution |-> <<>>]

\* what the Predictor may answer to a query
PredictorAnswers(query) ==
  IF query = "show me Michael's properties" THEN {PersonAnswer("Michael"), HallucinatedAnswer}
  ELSE IF query \in {"Michael's properties", "MICHAEL'S properties "} THEN {PersonAnswer("Michael")}
  ELSE IF query = "show me Sarah's properties" THEN {PersonAnswer("Sarah")}
  ELSE IF query = "show me Pat's properties" THEN {PersonAnswer("Pat"), TemplateAnswer}
  ELSE IF query = "show me Rue's properties" THEN {PersonAnswer("Rue")}
  ELSE IF query = "admin users" THEN {AdminAnswer}
  ELSE {TemplateAnswer, OverconfidentAnswer}

\* what EntityResolver.search_entity returns for a name: the rows of the store
SearchEntity(entity_name) ==
  IF entity_name = "Michael"
  THEN <<[id |-> "m-1", name |-> "Michael", table |-> "users", confidence |-> 95]>>
  ELSE IF entity_name = "Sarah"
  THEN <<[id |-> "s-2", name |-> "Sarah", table |-> "users", confidence |-> 95]>>
  ELSE IF entity_name = "Pat"
  THEN <<[id |-> "org/7", name |-> "Pat", table |-> "leases", confidence |-> 80]>>
  ELSE <<>>

\* SingleCallActionPlanner._resolve_suggested_entities
RECURSIVE _resolve_suggested_entities(_, _)
_resolve_suggested_entities(entity_resolutions, i) ==
  IF i > Len(entity_resolutions) THEN <<>>
  ELSE SearchEntity(entity_resolutions[i]) \o _resolve_suggested_entities(entity_resolutions, i + 1)

(***************************************************************************)
(* plan_route after the await, as a function of the request and of the     *)
(* Predictor's answer, tabulated over the requests of the deployments: the *)
(* actions read the tables                                                 *)
(***************************************************************************)
AllClients == UNION { d.clients : d \in Deployments }

\* the strings of a response outside its action plan
ResponseTexts ==
  {"excellent", "good", "acceptable", "slow", "none"}
    \cup { c.user_id[1] : c \in { x \in AllClients : x.user_id # None } }
    \cup { c.user_role[1] : c \in { x \in AllClients : x.user_role # None } }

request_cache_keys ==
  [query \in AllQueries |->
     [client \in AllClients |->
        _generate_request_cache_key(query, client.user_id, client.user_role)]]

\* FantasticRouter.plan once the Predictor has answered llm_response: the
\* planner resolves the suggested entities and assembles the plan, the router
\* applies RBAC to it
plan(route_patterns, llm_response, user_role) ==
  [_build_action_plan(route_patterns, llm_response,
                      _resolve_suggested_entities(llm_response.entity_resolution, 1))
     EXCEPT !.plan = ApplyRBAC(route_patterns, @, user_role)]

\* plan_route lines 547-558: the validated route, or the fallback with the
\* confidence reduced when _validate_and_fix_route raised
ValidatedPlan(action_plan, fixed) ==
  IF fixed.raised
  THEN [action_plan EXCEPT !.route = "/landlords/search",
                           !.confidence = Max2(10, @ - 30)]
  ELSE [action_plan EXCEPT !.route = fixed.route]

Validate(action_plan, route_patterns) ==
  ValidatedPlan(action_plan,
                _validate_and_fix_route(action_plan.route, action_plan, route_patterns))

\* plan_route lines 617-639 for the structural key and entity mapping
\* pattern: the key, the action plan and the other strings of the response
\* with the values replaced by placeholders, and whether the replaced text of
\* the response of a client no longer parses
StructuralEntry(action_plan_dict, pattern) ==
  [structural_key |-> pattern[1],
   entity_mapping |-> pattern[2],
   action_plan |-> MapPlan(action_plan_dict, LAMBDA s : ReplaceValues(s, pattern[2], 1)),
   texts |-> [s \in ResponseTexts |-> ReplaceValues(s, pattern[2], 1)],
   json_breaks |-> [client \in AllClients |->
                      JsonBroken([metadata |-> client], pattern[2])]]

\* the action plan of the response and what goes to the structural tier
Response(order, query, action_plan_dict) ==
  [action_plan |-> action_plan_dict,
   structural |-> StructuralEntry(action_plan_dict,
                                  _extract_structural_pattern(order, query, action_plan_dict))]

\* planned is what fantastic_router.plan gave: an exception of the plan
\* reaches the handler of plan_route
Planned(route_patterns, order, query, planned) ==
  [raised |-> planned.raised,
   response |-> Response(order, query, Validate(planned.plan, route_patterns))]

\* The requests a deployment can see with the answers the Predictor may
\* give: the router's patterns, the order of the fillers, the query, the
\* caller's role and the answer
PlanCases ==
  UNION { UNION { { <<d.route_patterns, order, query, client.user_role, llm_response>> :
                      order \in d.filler_orders, client \in d.clients,
                      llm_response \in PredictorAnswers(query) } :
                  query \in d.queries } :
          d \in Deployments }

plan_outcomes ==
  [x \in PlanCases |-> Planned(x[1], x[2], x[3], plan(x[1], x[5], x[4]))]

StructuralKeys == { plan_outcomes[x].response.structural.structural_key : x \in PlanCases }

\* the structural keys the probe of plan_route takes the query to match
matching_keys ==
  [order \in FillerOrders |->
     [query \in AllQueries |->
        { k \in StructuralKeys :
            HasBar(k) /\ _matches_structural_pattern(order, query, PatternQueryOf(k)) }]]

(***************************************************************************)
(* The service: plan_route and clear_cache                                 *)
(***************************************************************************)
TaskIds == 1..MaxRequests

NoOrigin == [response |-> NoResponse, at |-> 0, by |-> 0]

\* A plan request.  The fields from after on are history: the requests that
\* had ended when this one arrived and when it ended, the number of
\* clear_cache calls at both instants, what the request-cache lookup met
\* ("absent", "expired" or "live"), the stored entry a hit was served from,
\* and the live structural entries the query matched, each with the time of
\* its store and the request that stored it, and the cache operations of the
\* request that raised: "split" (the unpacking of a structural key without
\* "|"), "apply" (the NameError in _apply_structural_cache, when no key
\* without "|" is live to end the walk) and "store" (the JSONDecodeError of
\* the structural entry).
IdleTask ==
  [pc |-> "idle", query |-> "", user_id |-> None, user_role |-> None, start_time |-> 0,
   request_cache_key |-> <<>>, response |-> NoResponse, llm_calls |-> 0, db_calls |-> 0,
   end_time |-> 0,
   after |-> {}, overtook |-> {}, clears_at_start |-> 0, clears_at_end |-> 0,
   lookup |-> "none", served |-> NoOrigin, matching |-> {}, cache_errors |-> {}]

InFlight == { t \in TaskIds : tasks[t].pc = "planning" }
Finished == { t \in TaskIds : tasks[t].pc \in {"done", "failed"} }

NoStudy == arg = "" /\ res = <<>> /\ step = 0

\* no search_entity call and no planner request under way, no port call made
NoPorts == search = [pc |-> "idle"] /\ planner = [pc |-> "idle"] /\ calls = <<>>

Init ==
  /\ deployment \in Deployments
  /\ filler_order \in deployment.filler_orders
  /\ now = 0
  /\ _request_cache = <<>>
  /\ _request_cache_ttl = <<>>
  /\ _structural_cache = <<>>
  /\ _structural_cache_ttl = <<>>
  /\ tasks = [t \in TaskIds |-> IdleTask]
  /\ clears = 0
  /\ origin_request = <<>>
  /\ origin_structural = <<>>
  /\ NoStudy
  /\ NoPorts

\* plan_route lines 484-499: the validation of the route of a structural hit
Revalidated(hit, route_patterns) ==
  IF hit.action_plan.route = "" THEN hit
  ELSE [hit EXCEPT !.action_plan = Validate(@, route_patterns)]

\* plan_route on a structural hit (lines 479-502): the performance fields,
\* then the validation of the cached route
StructuralHitResponse(structural_hit, duration_ms, route_patterns) ==
  Revalidated([structural_hit EXCEPT
                 !.performance.duration_ms = duration_ms,
                 !.performance.cache_hits = 1,
                 !.performance.cache_type = "structural"],
              route_patterns)

\* an exception of a cache operation that leaves plan_route
Escapes(raised) == raised

\* the `except Exception` of _apply_structural_cache and of _cache_response
\* and the two try blocks of plan_route around the structural probe and the
\* structural store: the exception of a cache operation stays inside
CacheErrorEscapes(raised) == FALSE

\* The request-cache probe at request_cache_key, which answers on a hit, and
\* the structural probe.  matching are the live structural keys the query
\* matches.  The structural probe walks the live keys; a key without "|"
\* (the key "") ends the walk with the ValueError of the unpacking, which
\* plan_route catches.  Whether the walk is cut short or not, no key gives a
\* hit: _apply_structural_cache returns None for every key.
Probe(t, query, client, request_cache_key, matching) ==
  LET got == _get_cached_response(_request_cache, _request_cache_ttl, request_cache_key, now)
      unsplit == { k \in DOMAIN _structural_cache :
                     now <= _structural_cache_ttl[k] /\ ~HasBar(k) }
      probe_errors ==
        IF got.found THEN {}
        ELSE IF unsplit # {} THEN {"split"}
        ELSE IF matching # {} /\ ~copy_is_bound THEN {"apply"}
        ELSE {}
      rebuilt(k) ==
        _apply_structural_cache(
          _structural_cache[k],
          _extract_entities_from_query(filler_order, query, PatternQueryOf(k)))
      started == [tasks[t] EXCEPT
                    !.query = query, !.user_id = client.user_id,
                    !.user_role = client.user_role, !.start_time = now,
                    !.request_cache_key = request_cache_key,
                    !.after = Finished, !.clears_at_start = clears,
                    !.lookup = IF got.found THEN "live"
                               ELSE IF request_cache_key \in DOMAIN _request_cache
                                    THEN "expired" ELSE "absent",
                    !.matching = { <<k, origin_structural[k].at, origin_structural[k].by>> :
                                   k \in matching },
                    !.cache_errors = probe_errors]
      ended == [started EXCEPT !.pc = "done", !.end_time = now, !.overtook = Finished,
                               !.clears_at_end = clears]
  IN IF got.found
     THEN \* the cached dict itself is updated and returned
          /\ _request_cache' =
               DictPut(_request_cache, request_cache_key,
                       RequestHit(_request_cache[request_cache_key], 0))
          /\ tasks' = [tasks EXCEPT ![t] =
                         [ended EXCEPT
                            !.response = RequestHit(_request_cache[request_cache_key], 0),
                            !.served = origin_request[request_cache_key]]]
          /\ UNCHANGED <<_request_cache_ttl, origin_request>>
     ELSE /\ _request_cache' = got.cache
          /\ _request_cache_ttl' = got.ttl_cache
          /\ origin_request' = [k \in DOMAIN got.cache |-> origin_request[k]]
          /\ IF \A k \in matching : ~rebuilt(k).success
             THEN tasks' = [tasks EXCEPT ![t] =
                              [started EXCEPT !.pc =
                                 IF CacheErrorEscapes(probe_errors # {})
                                 THEN "failed" ELSE "planning"]]
             ELSE \E k \in { m \in matching : rebuilt(m).success } :
                    tasks' = [tasks EXCEPT ![t] =
                                [ended EXCEPT !.response =
                                   StructuralHitResponse(rebuilt(k), 0,
                                                         deployment.route_patterns)]]

\* plan_route up to the await of fantastic_router.plan
PlanProbe(t, query, client) ==
  /\ tasks[t].pc = "idle"
  /\ t <= deployment.requests
  /\ \A u \in 1..(t - 1) : tasks[u].pc # "idle"
  /\ Cardinality(InFlight) < MaxInFlight
  /\ Probe(t, query, client, request_cache_keys[query][client],
           { k \in DOMAIN _structural_cache :
               /\ now <= _structural_cache_ttl[k]
               /\ k \in matching_keys[filler_order][query] })
  /\ UNCHANGED <<filler_order, deployment, now, _structural_cache, _structural_cache_ttl,
                 clears, origin_structural, study, ports>>

\* plan_route lines 589-639: the response and the two stores.  outcome is
\* what plan_route computed from the plan that fantastic_router.plan gave
Respond(t, task, outcome) ==
  LET duration_ms == (now - task.start_time) * 1000
      response ==
        [success |-> TRUE,
         action_plan |-> outcome.action_plan,
         alternatives |-> <<>>,
         performance |-> [duration_ms |-> duration_ms, level |-> PerfLevel(duration_ms),
                          llm_calls |-> 1, cache_hits |-> 0, cache_type |-> "none"],
         metadata |-> [query_length |-> Len(task.query), user_id |-> task.user_id,
                       user_role |-> task.user_role, timestamp |-> task.start_time]]
      structural == outcome.structural
      store_raised ==
        structural.json_breaks[[user_id |-> task.user_id, user_role |-> task.user_role]]
  IN /\ tasks' = [tasks EXCEPT ![t] =
                    [task EXCEPT !.pc = IF CacheErrorEscapes(store_raised)
                                        THEN "failed" ELSE "done",
                                 !.response = response,
                                 !.cache_errors =
                                   @ \cup (IF store_raised THEN {"store"} ELSE {})]]
     /\ _request_cache' = DictPut(_request_cache, task.request_cache_key, response)
     /\ _request_cache_ttl' =
          DictPut(_request_cache_ttl, task.request_cache_key, now + TtlSeconds("request"))
     /\ origin_request' =
          DictPut(origin_request, task.request_cache_key,
                  [response |-> response, at |-> now, by |-> t])
     /\ IF store_raised
        THEN UNCHANGED <<_structural_cache, _structural_cache_ttl, origin_structural>>
        ELSE /\ _structural_cache' =
                  DictPut(_structural_cache, structural.structural_key,
                          MapResponse(response, structural.action_plan,
                                      LAMBDA s : structural.texts[s]))
             /\ _structural_cache_ttl' =
                  DictPut(_structural_cache_ttl, structural.structural_key,
                          now + TtlSeconds("structural"))
             /\ origin_structural' =
                  DictPut(origin_structural, structural.structural_key,
                          [route |-> outcome.action_plan.route, at |-> now, by |-> t])

\* task is the request with the calls it has made and the history of its end
Complete(t, task, outcome) ==
  IF outcome.raised
  THEN \* the exception reaches the handler of plan_route: HTTP 500
       /\ tasks' = [tasks EXCEPT ![t] = [task EXCEPT !.pc = "failed"]]
       /\ UNCHANGED <<caches, history>>
  ELSE Respond(t, task, outcome.response)

\* plan_route from the return of fantastic_router.plan to the response: the
\* Predictor has answered llm_response and the resolver has searched the store
PlanComplete(t, llm_response) ==
  /\ tasks[t].pc = "planning"
  /\ Complete(t,
              [tasks[t] EXCEPT !.llm_calls = 1,
                               !.db_calls = Len(llm_response.entity_resolution),
                               !.end_time = now, !.overtook = Finished,
                               !.clears_at_end = clears],
              plan_outcomes[<<deployment.route_patterns, filler_order, tasks[t].query,
                              tasks[t].user_role, llm_response>>])
  /\ UNCHANGED <<filler_order, deployment, now, clears, study, ports>>

\* a clear that leaves the entries where they are
Uncleared(d) == d

\* dict.clear()
Cleared(d) == <<>>

\* clear_cache: the four dicts are cleared with no await in between
clear_cache ==
  /\ clears < deployment.clearings
  /\ _request_cache' = Cleared(_request_cache)
  /\ _request_cache_ttl' = Cleared(_request_cache_ttl)
  /\ _structural_cache' = Cleared(_structural_cache)
  /\ _structural_cache_ttl' = Cleared(_structural_cache_ttl)
  /\ origin_request' = Cleared(origin_request)
  /\ origin_structural' = Cleared(origin_structural)
  /\ clears' = clears + 1
  /\ UNCHANGED <<filler_order, deployment, now, tasks, study, ports>>

\* time passes
Tick(d) ==
  /\ now + d <= MaxTime
  /\ now' = now + d
  /\ UNCHANGED <<filler_order, deployment, caches, tasks, clears, history, study, ports>>

Next ==
  \/ \E t \in TaskIds : \E query \in deployment.queries : \E client \in deployment.clients :
       PlanProbe(t, query, client)
  \/ \E t \in TaskIds : \E llm_response \in PredictorAnswers(tasks[t].query) :
       PlanComplete(t, llm_response)
  \/ clear_cache
  \/ \E d \in deployment.ticks : Tick(d)

Spec == Init /\ [][Next]_vars

(***************************************************************************)
(* Inputs of the normaliser study                                          *)
(***************************************************************************)
MaxWords == 3

NormWords ==
  { "show", "me", "get", "Michaels", "Michael's", "cats", "dogs",
    "property", "salary", "x" }

RECURSIVE JoinWords(_)
JoinWords(ws) ==
  IF Len(ws) = 0 THEN ""
  ELSE IF Len(ws) = 1 THEN ws[1]
  ELSE ws[1] \o " " \o JoinWords(Tail(ws))

NormInputs ==
  { JoinWords(ws) : ws \in UNION { [1..n -> NormWords] : n \in 1..MaxWords } }

InitNorm ==
  /\ filler_order \in FillerOrders
  /\ deployment = Deployment(EmptyConfig, "container", FillerOrders, {}, {}, 0, 0, {})
  /\ now = 0
  /\ _request_cache = <<>>
  /\ _request_cache_ttl = <<>>
  /\ _structural_cache = <<>>
  /\ _structural_cache_ttl = <<>>
  /\ tasks = [t \in TaskIds |-> IdleTask]
  /\ clears = 0
  /\ origin_request = <<>>
  /\ origin_structural = <<>>
  /\ arg \in NormInputs
  /\ res = <<>>
  /\ step = 0
  /\ NoPorts

\* one more application of _normalize_query: to the query, then to its own result
ApplyNormalize ==
  /\ step < 2
  /\ res' = Append(res, _normalize_query(filler_order, IF step = 0 THEN arg ELSE res[step]))
  /\ step' = step + 1
  /\ UNCHANGED <<filler_order, deployment, now, caches, tasks, clears, history, arg, ports>>

NextNorm == ApplyNormalize

SpecNorm == InitNorm /\ [][NextNorm]_vars

(***************************************************************************)
(* Properties of the planning service                                      *)
(***************************************************************************)
\* the request has been answered with success = true
Done(t) == tasks[t].pc = "done"

\* the request went through both probes without a hit
Missed(t) ==
  /\ tasks[t].lookup \in {"absent", "expired"}
  /\ Done(t) => tasks[t].llm_calls = 1

\* the request was answered from the request tier
RequestServed(t) == Done(t) /\ tasks[t].lookup = "live"

\* C1: every success = true response has a route that starts with "/" and
\* that the route validator accepts against a declared pattern; a request
\* whose validation and repairs all fail ends in an error
C1_RouteConforms ==
  \A t \in TaskIds :
    Done(t) =>
      /\ startswith(tasks[t].response.action_plan.route, "/")
      /\ _validate_route(tasks[t].response.action_plan.route,
                         deployment.route_patterns).is_valid

\* C2: the returned route matches the template in matched_pattern of the
\* same plan under _pattern_to_regex
C2_RouteMatchesPattern ==
  \A t \in TaskIds :
    Done(t) =>
      re_match(_pattern_to_regex(tasks[t].response.action_plan.matched_pattern),
               tasks[t].response.action_plan.route)

\* the first declared pattern the route belongs to names required roles, and
\* the role of the caller is not one of them
RoleExcluded(ms, user_role) ==
  /\ Len(ms) > 0
  /\ Len(ms[1].required_roles) > 0
  /\ \A i \in 1..Len(ms[1].required_roles) : Some(ms[1].required_roles[i]) # user_role

\* C3: a returned route that belongs to a pattern whose required roles do
\* not contain the caller's role comes with confidence 0
C3_DeniedHasZeroConfidence ==
  \A t \in TaskIds :
    (/\ Done(t)
     /\ RoleExcluded(SelectSeq(deployment.config,
                               LAMBDA p : _route_matches_pattern(
                                            tasks[t].response.action_plan.route, p.pattern)),
                     tasks[t].user_role))
      => tasks[t].response.action_plan.confidence = 0

\* t re-issues the request of u: u missed both tiers and completed before t
\* arrived, t has the same query, user_id and user_role, arrived before the
\* request TTL of the entry u stored elapsed, and clear_cache did not run in
\* between
Reissued(u, t) ==
  /\ u # t
  /\ Done(u) /\ Missed(u)
  /\ tasks[t].pc # "idle"
  /\ u \in tasks[t].after
  /\ tasks[t].query = tasks[u].query
  /\ tasks[t].user_id = tasks[u].user_id
  /\ tasks[t].user_role = tasks[u].user_role
  /\ tasks[t].start_time <= tasks[u].end_time + CACHE_TTL_SECONDS
  /\ tasks[t].clears_at_start = tasks[u].clears_at_end

\* the re-issued request is answered from the request tier without a call
FromRequestTier(t) ==
  /\ RequestServed(t)
  /\ tasks[t].response.performance.cache_type = "request"
  /\ tasks[t].llm_calls = 0
  /\ tasks[t].db_calls = 0

\* C4 as stated: the re-issued request is answered from the request tier,
\* without a Predictor or RecordSearcher call, with the action plan of the
\* first response
C4_SameAsFirst ==
  \A u, t \in TaskIds :
    Reissued(u, t) =>
      /\ FromRequestTier(t)
      /\ tasks[t].response.action_plan = tasks[u].response.action_plan

\* C4: the re-issued request is answered from the request tier, without a
\* Predictor or RecordSearcher call, with the action plan of the response
\* that was stored last under its key: the first response, or that of a
\* request with the same key that completed after the first one
C4_SameAsLastStored ==
  \A u, t \in TaskIds :
    Reissued(u, t) =>
      /\ FromRequestTier(t)
      /\ tasks[t].served.by \in TaskIds
      /\ tasks[t].served.by = u \/ u \in tasks[tasks[t].served.by].overtook
      /\ tasks[tasks[t].served.by].request_cache_key = tasks[u].request_cache_key
      /\ tasks[t].response.action_plan = tasks[tasks[t].served.by].response.action_plan

\* a request re-issued at the very end of the TTL of the first response
C4_Witness ==
  \E u, t \in TaskIds :
    /\ Reissued(u, t)
    /\ Done(t)
    /\ tasks[t].start_time = tasks[u].end_time + CACHE_TTL_SECONDS

\* _normalize_query and lower().strip() on the queries of the deployments
normalized_queries ==
  [order \in FillerOrders |-> [query \in AllQueries |-> _normalize_query(order, query)]]

lowered_queries == [query \in AllQueries |-> strip(lower(query))]

\* C5: a request that went past the request tier while its query matched a
\* live structural entry stored for a query that differs from it after
\* normalization (the same token structure, another entity) is answered from
\* the structural tier, without a Predictor call
C5_StructuralServed ==
  \A t \in TaskIds :
    (/\ tasks[t].pc # "idle"
     /\ tasks[t].lookup # "live"
     /\ \E m \in tasks[t].matching :
          normalized_queries[filler_order][tasks[m[3]].query]
            # normalized_queries[filler_order][tasks[t].query])
      => /\ Done(t)
         /\ tasks[t].response.performance.cache_type = "structural"
         /\ tasks[t].llm_calls = 0

Settled(response) ==
  [response EXCEPT !.performance.duration_ms = 0,
                   !.performance.cache_hits = 0,
                   !.performance.cache_type = "none"]

\* C7: the response of a cache hit equals the response stored for the entry
\* in every field but performance.duration_ms, cache_hits and cache_type,
\* however many hits the entry has had; and so does the entry itself
C7_HitEqualsStored ==
  /\ \A t \in TaskIds :
       (Done(t) /\ ~Missed(t)) =>
         /\ tasks[t].served.by \in TaskIds
         /\ Settled(tasks[t].response) = Settled(tasks[t].served.response)
         /\ tasks[t].served.response = tasks[tasks[t].served.by].response
  /\ \A k \in DOMAIN _request_cache :
       Settled(_request_cache[k]) = Settled(origin_request[k].response)

\* two hits on the same stored entry
C7_Witness ==
  \E t1, t2 \in TaskIds :
    /\ t1 # t2
    /\ RequestServed(t1) /\ RequestServed(t2)
    /\ tasks[t1].served = tasks[t2].served

\* C8: an entry stored at time s is not returned by a lookup later than
\* s + TTL of its tier (300 s or 1800 s), and the expiry of an entry is that
\* of its last store: a hit does not move it
C8_Expiry ==
  /\ \A t \in TaskIds :
       /\ RequestServed(t) =>
            tasks[t].start_time <= tasks[t].served.at + CACHE_TTL_SECONDS
       /\ \A m \in tasks[t].matching :
            tasks[t].start_time <= m[2] + STRUCTURAL_CACHE_TTL_SECONDS
  /\ DOMAIN _request_cache_ttl = DOMAIN _request_cache
  /\ DOMAIN _structural_cache_ttl = DOMAIN _structural_cache
  /\ \A k \in DOMAIN _request_cache :
       _request_cache_ttl[k] = origin_request[k].at + CACHE_TTL_SECONDS
  /\ \A k \in DOMAIN _structural_cache :
       _structural_cache_ttl[k] = origin_structural[k].at + STRUCTURAL_CACHE_TTL_SECONDS

\* a lookup that met an expired entry of the request tier while an entry of
\* the structural tier stored before was still live, after a hit on the
\* request entry
C8_Witness ==
  \E t1, t2 \in TaskIds :
    /\ RequestServed(t1)
    /\ tasks[t1].start_time > tasks[t1].served.at
    /\ tasks[t2].lookup = "expired"
    /\ tasks[t2].request_cache_key = tasks[t1].request_cache_key
    /\ tasks[t2].matching # {}

\* C9: every entry of the structural tier was created for a plan whose route
\* had no "{"
C9_NoPlaceholderEntry ==
  \A k \in DOMAIN _structural_cache : ~Contains(origin_structural[k].route, "{")

\* C10: normalize(normalize(q)) = normalize(q) for every query q
C10_Idempotent == step = 2 => res[2] = res[1]

(***************************************************************************)
(* Surface variants of one request                                         *)
(***************************************************************************)
\* the service at rest, around a study of one of its functions
ServiceIdle ==
  /\ deployment = Deployment(EmptyConfig, "container", FillerOrders, {}, {}, 0, 0, {})
  /\ now = 0
  /\ _request_cache = <<>>
  /\ _request_cache_ttl = <<>>
  /\ _structural_cache = <<>>
  /\ _structural_cache_ttl = <<>>
  /\ tasks = [t \in TaskIds |-> IdleTask]
  /\ clears = 0
  /\ origin_request = <<>>
  /\ origin_structural = <<>>

VariantNames == {"Michael", "John"}
VariantNouns == {"properties", "income", "contact"}

\* nothing, or one filler verb and a blank
LeadingFillers == {""} \cup { filler \o " " : filler \in filler_words }

\* "N W", "Ns W" and "N's W"
SurfaceForms(name, noun) ==
  { name \o " " \o noun, name \o "s " \o noun, name \o "'s " \o noun }

Variants ==
  UNION { UNION { { [query |-> filler \o form, name |-> name, noun |-> noun] :
                      filler \in LeadingFillers, form \in SurfaceForms(name, noun) } :
                  noun \in VariantNouns } :
          name \in VariantNames }

InitVariants ==
  /\ filler_order \in FillerOrders
  /\ ServiceIdle
  /\ arg \in { v.query : v \in Variants }
  /\ res = <<>>
  /\ step = 0
  /\ NoPorts

SpecVariants == InitVariants /\ [][NextNorm]_vars

\* C11: every surface variant of "N's W" -- "N W", "Ns W", "N's W", with or
\* without one leading filler verb -- normalizes to "n's w", whatever the
\* process that evaluates it
C11_VariantsAgree ==
  \A v \in Variants :
    (arg = v.query /\ step >= 1) => res[1] = lower(v.name) \o "'s " \o v.noun

(***************************************************************************)
(* EntityResolver (retrieval/vector.py).  Confidences of entity matches    *)
(* are thousandths here: 0.95 is 950, 0.95 * 0.7 is 665.                   *)
(***************************************************************************)
\* SearchStrategy, in the order of the list `strategies` of search_entity
Strategies == <<"exact_match", "fuzzy_match", "semantic_search", "full_text_search">>

\* rows of the stores
Row(id, name) == [id |-> id, name |-> name]

\* What the RecordSearcher holds, per table, in the order it lists its rows:
\* a store with two people and a lease, a store with nothing, and a store
\* with a row that has no id and a row only a single word reaches
Stores ==
  { [users |-> <<Row("m-2", "Michael Smith"), Row("m-1", "Michael")>>,
     leases |-> <<Row("m-1", "Michael lease")>>],
    [users |-> <<>>, leases |-> <<>>],
    [users |-> <<Row("", "Michael")>>,
     leases |-> <<Row("7", "Smith and sons")>>] }

\* seq[:n] for n >= 0
Take(seq, n) == SubSeq(seq, 1, IF n < Len(seq) THEN n ELSE Len(seq))

\* DatabaseClient.search(query, [table], fields, limit) when it answers: the
\* rows of the table with query in their name whatever the case (ILIKE), at
\* most limit of them
db_search(store, query, table, limit) ==
  Take(SelectSeq(store[table], LAMBDA row : Contains(lower(row.name), lower(query))), limit)

\* result[field] if the field is there and is truthy, else ""
FieldValue(result, field) == IF field \in DOMAIN result THEN result[field] ELSE ""

\* the three branches of _calculate_fuzzy_confidence for one field
FieldConfidence(query_lower, field_value, words) ==
  IF query_lower = field_value THEN 950
  ELSE IF Contains(field_value, query_lower) \/ Contains(query_lower, field_value) THEN 800
  ELSE IF \E i \in 1..Len(words) : Contains(field_value, words[i]) THEN 600
  ELSE 0

\* the loop over search_fields, from field i on, max_confidence so far
RECURSIVE FuzzyLoop(_, _, _, _, _)
FuzzyLoop(query_lower, result, search_fields, i, max_confidence) ==
  IF i > Len(search_fields) THEN max_confidence
  ELSE IF FieldValue(result, search_fields[i]) = ""
       THEN FuzzyLoop(query_lower, result, search_fields, i + 1, max_confidence)
       ELSE FuzzyLoop(query_lower, result, search_fields, i + 1,
                      Max2(max_confidence,
                           FieldConfidence(query_lower,
                                           lower(FieldValue(result, search_fields[i])),
                                           split_ws(query_lower))))

_calculate_fuzzy_confidence(query, result, search_fields) ==
  FuzzyLoop(lower(query), result, search_fields, 1, 0)

\* max(0.4, fuzzy * 0.7)
_calculate_text_match_confidence(query, result, search_fields) ==
  Max2(400, (_calculate_fuzzy_confidence(query, result, search_fields) * 7) \div 10)

\* the first search field of the result that has a value
RECURSIVE DisplayName(_, _, _)
DisplayName(result, search_fields, i) ==
  IF i > Len(search_fields) THEN ""
  ELSE IF FieldValue(result, search_fields[i]) # "" THEN FieldValue(result, search_fields[i])
  ELSE DisplayName(result, search_fields, i + 1)

\* _convert_to_entity_match: the match in a tuple, or the empty tuple for None
ConvertNamed(result, entity_name, table, confidence, strategy) ==
  IF FieldValue(result, "id") = "" \/ entity_name = "" THEN <<>>
  ELSE <<[id |-> result.id, name |-> entity_name, table |-> table,
          confidence |-> confidence, strategy |-> strategy]>>

_convert_to_entity_match(result, table, search_fields, confidence, strategy) ==
  ConvertNamed(result, DisplayName(result, search_fields, 1), table, confidence, strategy)

\* the confidence a strategy gives a row, and whether it keeps the row
RowConfidence(strategy, entity_name, result, search_fields) ==
  IF strategy = "exact_match" THEN 950
  ELSE IF strategy = "fuzzy_match"
       THEN _calculate_fuzzy_confidence(entity_name, result, search_fields)
       ELSE _calculate_text_match_confidence(entity_name, result, search_fields)

KeepsRow(strategy, confidence) ==
  IF strategy = "exact_match" THEN TRUE
  ELSE IF strategy = "fuzzy_match" THEN confidence > 600
  ELSE confidence > 400

RowMatch(strategy, result, table, search_fields, confidence) ==
  IF KeepsRow(strategy, confidence)
  THEN _convert_to_entity_match(result, table, search_fields, confidence, strategy)
  ELSE <<>>

\* `for result in results` of a strategy, from result i on
RECURSIVE RowMatches(_, _, _, _, _, _)
RowMatches(strategy, entity_name, table, search_fields, results, i) ==
  IF i > Len(results) THEN <<>>
  ELSE RowMatch(strategy, results[i], table, search_fields,
                RowConfidence(strategy, entity_name, results[i], search_fields))
         \o RowMatches(strategy, entity_name, table, search_fields, results, i + 1)

\* the queries a strategy sends for each table, or raised = TRUE when
\* computing them fails: entity_name.split()[0] of _fuzzy_match_search is an
\* IndexError for a name that has a blank and no word
FirstWord(words, entity_name) == IF Len(words) > 0 THEN words[1] ELSE entity_name

StrategyQueries(strategy, entity_name) ==
  IF strategy = "exact_match" THEN [raised |-> FALSE, queries |-> <<entity_name>>]
  ELSE IF strategy = "fuzzy_match"
  THEN IF Contains(entity_name, " ")
       THEN [raised |-> split_ws(entity_name) = <<>>,
             queries |-> <<lower(entity_name), replace(entity_name, " ", ""),
                           FirstWord(split_ws(entity_name), entity_name)>>]
       ELSE [raised |-> FALSE,
             queries |-> <<lower(entity_name), entity_name, entity_name>>]
  ELSE IF strategy = "semantic_search" THEN [raised |-> FALSE, queries |-> <<>>]
  ELSE [raised |-> FALSE,
        queries |-> SelectSeq(split_ws(lower(entity_name)), LAMBDA token : Len(token) > 2)]

\* _deduplicate_matches, from match i on: the first match of each key stays
MatchKey(match) == match.table \o ":" \o match.id

RECURSIVE DedupFrom(_, _, _)
DedupFrom(matches, i, seen) ==
  IF i > Len(matches) THEN <<>>
  ELSE IF MatchKey(matches[i]) \in seen THEN DedupFrom(matches, i + 1, seen)
  ELSE <<matches[i]>> \o DedupFrom(matches, i + 1, seen \cup {MatchKey(matches[i])})

\* a deduplication that keeps the last match of each table and id
RECURSIVE LastFrom(_, _)
LastFrom(matches, i) ==
  IF i > Len(matches) THEN <<>>
  ELSE (IF \E j \in (i + 1)..Len(matches) : MatchKey(matches[j]) = MatchKey(matches[i])
        THEN <<>> ELSE <<matches[i]>>) \o LastFrom(matches, i + 1)

KeepsLast(matches) == LastFrom(matches, 1)

\* the matches as they are
KeepDuplicates(matches) == matches

_deduplicate_matches(matches) == DedupFrom(matches, 1, {})

\* sorted(matches, key=confidence, reverse=True): stable, so matches of equal
\* confidence keep their order
InsertDesc(sorted, match) ==
  LET ahead == SelectSeq(sorted, LAMBDA m : m.confidence >= match.confidence)
      behind == SelectSeq(sorted, LAMBDA m : m.confidence < match.confidence)
  IN ahead \o <<match>> \o behind

RECURSIVE SortDesc(_, _, _)
SortDesc(matches, i, sorted) ==
  IF i > Len(matches) THEN sorted
  ELSE SortDesc(matches, i + 1, InsertDesc(sorted, matches[i]))

\* a loop that goes on whatever it found
NeverStops(quality_matches) == FALSE

\* quality_matches and max(m.confidence for m in quality_matches) > 0.8
StopsEarly(quality_matches) ==
  \E i \in 1..Len(quality_matches) : quality_matches[i].confidence > 800

(***************************************************************************)
(* search_entity as a process: it waits at each call of the RecordSearcher *)
(* (db_client.search), which answers with rows or fails.  In the record of *)
(* a search, ti and qi are the table and the query of the pending call;    *)
(* attempted, failed and found are history: the strategies entered, those  *)
(* in which something raised, and every match a strategy built.            *)
(***************************************************************************)
StartSearch(store, entity_name, tables, search_fields, max_results, min_confidence) ==
  [pc |-> "calling", store |-> store, entity_name |-> entity_name, tables |-> tables,
   search_fields |-> search_fields, max_results |-> max_results,
   min_confidence |-> min_confidence,
   strategy |-> 0, queries |-> <<>>, ti |-> 1, qi |-> 1,
   matches |-> <<>>, all_matches |-> <<>>, result |-> <<>>, raised |-> FALSE,
   attempted |-> <<>>, failed |-> {}, found |-> <<>>]

\* lines 78-80: deduplicate, sort by confidence, cut to max_results
Finish(s) ==
  [s EXCEPT !.pc = "done",
            !.result = Take(SortDesc(_deduplicate_matches(s.all_matches), 1, <<>>),
                            s.max_results)]

\* an exception that leaves search_entity
Propagate(s) == [s EXCEPT !.pc = "done", !.raised = TRUE]

\* `except Exception: continue` of the loop over the strategies
Swallow(s) == [s EXCEPT !.failed = @ \cup {Strategies[s.strategy]}]

QualityMatches(s) == SelectSeq(s.matches, LAMBDA m : m.confidence >= s.min_confidence)

RECURSIVE EnterStrategy(_, _)
\* the strategy returned s.matches: lines 62-71, then the next strategy
EndStrategy(s) ==
  IF StopsEarly(QualityMatches(s)) \/ s.strategy = Len(Strategies)
  THEN Finish([s EXCEPT !.all_matches = @ \o QualityMatches(s)])
  ELSE EnterStrategy([s EXCEPT !.all_matches = @ \o QualityMatches(s)], s.strategy + 1)

\* the strategy raised: line 73
FailStrategy(s) ==
  IF Swallow(s).pc = "done" \/ s.strategy = Len(Strategies)
  THEN Finish(Swallow(s))
  ELSE EnterStrategy(Swallow(s), s.strategy + 1)

\* strategy k begins: up to its first call of the RecordSearcher
Entered(s, k, q) ==
  IF q.raised THEN FailStrategy(s)
  ELSE IF Len(s.tables) = 0 \/ Len(q.queries) = 0 THEN EndStrategy(s)
  ELSE [s EXCEPT !.queries = q.queries]

EnterStrategy(s, k) ==
  Entered([s EXCEPT !.strategy = k, !.matches = <<>>, !.queries = <<>>,
                    !.ti = 1, !.qi = 1,
                    !.attempted = Append(@, Strategies[k])],
          k, StrategyQueries(Strategies[k], s.entity_name))

\* the position after the pending call: the next query of the table, then
\* the next table; full-text search gives up a table when a call fails
Advance(s, failed) ==
  IF s.qi < Len(s.queries) /\ ~(failed /\ Strategies[s.strategy] = "full_text_search")
  THEN [s EXCEPT !.qi = @ + 1]
  ELSE [s EXCEPT !.ti = @ + 1, !.qi = 1]

Resume(s) == IF s.ti > Len(s.tables) THEN EndStrategy(s) ELSE s

\* the pending call answered with results
Answered(s, built) ==
  Resume(Advance([s EXCEPT !.matches = @ \o built, !.found = @ \o built], FALSE))

\* the pending call raised: the strategy catches it and goes on
Failed(s) ==
  Resume(Advance([s EXCEPT !.failed = @ \cup {Strategies[s.strategy]}], TRUE))

\* the pending call as the log of calls keeps it, with its outcome
PendingCall(s, fails) ==
  [port |-> "RecordSearcher", event |-> "call", strategy |-> Strategies[s.strategy],
   table |-> s.tables[s.ti], query |-> s.queries[s.qi], raised |-> fails]

AfterAnswer(s, fails) ==
  IF fails THEN Failed(s)
  ELSE Answered(s, RowMatches(Strategies[s.strategy], s.entity_name, s.tables[s.ti],
                              s.search_fields,
                              db_search(s.store, s.queries[s.qi], s.tables[s.ti],
                                        s.max_results), 1))

\* search_entity up to its first call
search_entity(store, entity_name, tables, search_fields, max_results, min_confidence) ==
  EnterStrategy(StartSearch(store, entity_name, tables, search_fields,
                            max_results, min_confidence), 1)

SearchNames == {"Michael", "Michael Smith", " "}
SearchTables == {<<"users">>, <<"users", "leases">>}
SearchLimits == {1, 2, 5}
SearchFloors == {500, 1000}

InitResolver ==
  /\ filler_order = CHOOSE order \in FillerOrders : TRUE
  /\ ServiceIdle
  /\ NoStudy
  /\ planner = [pc |-> "idle"]
  /\ calls = <<>>
  /\ \E store \in Stores, entity_name \in SearchNames, tables \in SearchTables,
        max_results \in SearchLimits, min_confidence \in SearchFloors :
       search = search_entity(store, entity_name, tables, <<"name">>,
                              max_results, min_confidence)

\* the RecordSearcher answers the pending call of search_entity, or fails
SearcherReturns ==
  /\ planner.pc = "idle"
  /\ search.pc = "calling"
  /\ \E fails \in BOOLEAN :
       /\ search' = AfterAnswer(search, fails)
       /\ calls' = Append(calls, PendingCall(search, fails))
  /\ UNCHANGED <<filler_order, deployment, now, caches, tasks, clears, history, study, planner>>

NextResolver == SearcherReturns

SpecResolver == InitResolver /\ [][NextResolver]_vars

Returned == search.pc = "done" /\ ~search.raised

\* C12: the list search_entity returns is sorted by non-increasing
\* confidence, has no two matches with the same table and id, and has at
\* most max_results elements.
C12_SortedUniqueBounded ==
  Returned =>
    /\ \A i \in 1..Len(search.result) : \A j \in 1..Len(search.result) :
         i < j => /\ search.result[i].confidence >= search.result[j].confidence
                  /\ ~(search.result[i].table = search.result[j].table
                       /\ search.result[i].id = search.result[j].id)
    /\ Len(search.result) <= search.max_results

\* a search whose strategies built the same match more than once, in an
\* order that is not the order of confidence, and more than max_results of
\* them
C12_Witness ==
  /\ Returned
  /\ Len(_deduplicate_matches(search.all_matches)) < Len(search.all_matches)
  /\ Len(_deduplicate_matches(search.all_matches)) > search.max_results
  /\ \E i \in 1..Len(search.all_matches) : \E j \in 1..Len(search.all_matches) :
       i < j /\ search.all_matches[i].confidence < search.all_matches[j].confidence
  /\ Len(search.result) = 2

StrategyIndex(name) == CHOOSE k \in 1..Len(Strategies) : Strategies[k] = name

\* the strategies were entered in the order of the list, none twice, and
\* the calls of the RecordSearcher follow that order
InStrategyOrder ==
  /\ search.attempted = SubSeq(Strategies, 1, Len(search.attempted))
  /\ \A i \in 1..Len(calls) : \A j \in 1..Len(calls) :
       i < j => StrategyIndex(calls[i].strategy) <= StrategyIndex(calls[j].strategy)
  /\ \A i \in 1..Len(calls) : StrategyIndex(calls[i].strategy) <= search.strategy

EndedOnMatch ==
  \E i \in 1..Len(search.all_matches) :
    /\ search.all_matches[i].strategy = search.attempted[Len(search.attempted)]
    /\ search.all_matches[i].confidence > 800

\* C14: whatever fails in the RecordSearcher or inside a strategy,
\* search_entity does not raise, the remaining strategies are still
\* attempted, and the matches found by the strategies that did not fail are
\* returned.
C14_FailuresSwallowed ==
  /\ search.pc # "idle" => ~search.raised
  /\ (search.pc = "done" /\ search.failed # {}) =>
       /\ search.attempted = Strategies \/ EndedOnMatch
       /\ \A j \in 1..Len(search.found) :
            (search.found[j].strategy \notin search.failed
               /\ search.found[j].confidence >= search.min_confidence) =>
              /\ \E i \in 1..Len(search.all_matches) :
                   search.all_matches[i] = search.found[j]
              /\ Len(_deduplicate_matches(search.all_matches)) <= search.max_results =>
                   \E i \in 1..Len(search.result) :
                     /\ search.result[i].table = search.found[j].table
                     /\ search.result[i].id = search.found[j].id

\* every call of the exact strategy failed, the fuzzy strategy raised or
\* went on, and a match of a strategy in which nothing failed is returned
C14_Witness ==
  /\ Returned
  /\ \E i \in 1..Len(calls) : calls[i].strategy = "exact_match" /\ calls[i].raised
  /\ "exact_match" \in search.failed
  /\ Len(search.attempted) > 1
  /\ \E i \in 1..Len(search.result) : search.result[i].strategy \notin search.failed

(***************************************************************************)
(* One plan request that misses both tiers, step by step: plan_route calls *)
(* FantasticRouter.plan, the planner calls the Predictor (llm.analyze) and *)
(* the resolver, and plan_route answers.  calls is the log of the calls of *)
(* the two ports: a Predictor call and its return are two entries, a       *)
(* RecordSearcher call is one entry with its outcome.                      *)
(***************************************************************************)
Backends == {"openai", "anthropic", "gemini", "ollama"}

PredictorEvent(event, raised) ==
  [port |-> "Predictor", event |-> event, strategy |-> "", table |-> "", query |-> "",
   raised |-> raised]

\* the dict analyze returns from its `except Exception`
ErrorReply(backend, reasoning) ==
  [kind |-> "error",
   confidence |-> IF backend = "openai" THEN Confidence(0) ELSE Confidence(10),
   reasoning |-> reasoning]

\* analyze of a backend when the call ends with outcome: the reply, or
\* raised = TRUE when the exception leaves analyze
analyze(backend, outcome) ==
  IF outcome.kind = "timeout"
  THEN [raised |-> backend # "openai", kind |-> outcome.kind,
        reply |-> ErrorReply(backend, "Request took too long to complete")]
  ELSE IF outcome.kind = "failure"
  THEN [raised |-> FALSE, kind |-> outcome.kind,
        reply |-> ErrorReply(backend, "Technical error")]
  ELSE [raised |-> FALSE, kind |-> outcome.kind, reply |-> outcome]

\* a Predictor that is as sure as c of the search route
SearchAnswer(c) == [OverconfidentAnswer EXCEPT !.overall_confidence = c]

\* what the Predictor may answer to the single call of the fast planner
FastAnswers ==
  { PersonAnswer("Michael"), HallucinatedAnswer, AdminAnswer, TemplateAnswer,
    OverconfidentAnswer, SearchAnswer(Confidence(-20)), SearchAnswer(Confidence(70)),
    SearchAnswer([kind |-> "text", hundredths |-> 0]) }

Json(body) == [kind |-> "json", body |-> body]

Failures == { [kind |-> "timeout"], [kind |-> "failure"] }

\* the fields _build_action_plan and _resolve_suggested_entities read from
\* the reply, with the defaults of their .get calls for an error dict
FastResponse(reply) ==
  IF reply.kind = "error"
  THEN [resolved_route |-> "", matched_pattern |-> "", parameters |-> <<>>,
        action_type |-> "", overall_confidence |-> [kind |-> "missing", hundredths |-> 0],
        reasoning |-> reply.reasoning, entity_resolution |-> <<>>]
  ELSE reply.body

\* the search directive the Predictor gives for a name
Directive(entity_name) ==
  [entity_name |-> entity_name, search_tables |-> <<"users">>, search_fields |-> <<"name">>]

Directives(entity_names) == [i \in 1..Len(entity_names) |-> Directive(entity_names[i])]

\* the three answers the three-call planner asks for
IntentAnswers ==
  { [action_type |-> "NAVIGATE", entities |-> <<"Michael">>, confidence |-> Confidence(90),
     reasoning |-> "a person"],
    [action_type |-> "QUERY", entities |-> <<>>, confidence |-> Confidence(80),
     reasoning |-> "a search"] }

ResolutionAnswers ==
  { [entity_resolutions |-> <<Directive("Michael")>>], [entity_resolutions |-> <<>>] }

RouteAnswers ==
  { [matched_pattern |-> P_detail.pattern, resolved_route |-> "/landlords/m-1/properties",
     parameters |-> <<>>, confidence |-> Confidence(85), reasoning |-> "detail view"],
    [matched_pattern |-> P_search.pattern, resolved_route |-> "/landlords/search",
     parameters |-> <<>>, confidence |-> Confidence(95), reasoning |-> "search"] }

\* IntentParser._parse_llm_response
_parse_llm_response(reply) ==
  IF reply.kind = "error"
  THEN [action_type |-> "NAVIGATE", entities |-> <<>>,
        confidence |-> reply.confidence.hundredths, reasoning |-> reply.reasoning]
  ELSE [action_type |-> IF reply.body.action_type \in ActionTypeValues
                        THEN reply.body.action_type ELSE "NAVIGATE",
        entities |-> IF reply.body.action_type \in ActionTypeValues
                     THEN reply.body.entities ELSE <<>>,
        confidence |-> IF reply.body.action_type \in ActionTypeValues
                       THEN reply.body.confidence.hundredths ELSE 0,
        reasoning |-> reply.body.reasoning]

\* IntentParser._parse_entity_resolution_response: the resolution strategies
_parse_entity_resolution_response(reply) ==
  IF reply.kind = "error" THEN <<>> ELSE reply.body.entity_resolutions

\* ActionPlanner._parse_route_match_response
_parse_route_match_response(reply) ==
  IF reply.kind = "error"
  THEN [pattern |-> "", resolved_route |-> "", parameters |-> <<>>,
        confidence |-> reply.confidence.hundredths, reasoning |-> reply.reasoning]
  ELSE [pattern |-> reply.body.matched_pattern, resolved_route |-> reply.body.resolved_route,
        parameters |-> reply.body.parameters,
        confidence |-> reply.body.confidence.hundredths, reasoning |-> reply.body.reasoning]

\* the entities of a plan from the matches of the resolver; their
\* confidence stays in thousandths
ActionEntities(matches) ==
  [i \in 1..Len(matches) |->
     [id |-> matches[i].id, name |-> matches[i].name, table |-> matches[i].table,
      confidence |-> matches[i].confidence]]

\* ActionPlanner._build_action_plan
LegacyBuild(intent, entities, route_match) ==
  [raised |-> FALSE,
   plan |-> [action_type |-> intent.action_type,
             route |-> route_match.resolved_route,
             confidence |-> IF intent.confidence <= route_match.confidence
                            THEN intent.confidence ELSE route_match.confidence,
             parameters |-> route_match.parameters,
             entities |-> entities,
             reasoning |-> "Intent Analysis: " \o intent.reasoning,
             matched_pattern |-> route_match.pattern]]

\* FantasticRouter.plan once the planner has returned built
RouterPlan(route_patterns, built, user_role) ==
  [built EXCEPT !.plan = ApplyRBAC(route_patterns, @, user_role)]

\* The request in the planner.  st is the planner p, the search s it waits
\* for and the log of calls.  outcomes is history: how each Predictor call
\* of the request ended ("json", "timeout" or "failure").
PlannerIdle(backend, use_fast_planner, store) ==
  [pc |-> "idle", backend |-> backend, use_fast_planner |-> use_fast_planner,
   store |-> store, route_patterns |-> <<>>, user_role |-> None,
   stage |-> 0, llm_response |-> <<>>, intent |-> <<>>, resolutions |-> <<>>, ri |-> 1,
   entities |-> <<>>, planned |-> [raised |-> FALSE], outcomes |-> <<>>]

CallPredictor(st, stage) ==
  [st EXCEPT !.p.pc = "analyzing", !.p.stage = stage,
             !.log = Append(@, PredictorEvent("call", FALSE))]

Planner_Done(st, planned) == [st EXCEPT !.p.pc = "done", !.p.planned = planned]

\* plan_action of the fast planner after the resolutions, then the RBAC of
\* FantasticRouter.plan
FastBuild(st) ==
  Planner_Done(st, RouterPlan(st.p.route_patterns,
                              _build_action_plan(st.p.route_patterns, st.p.llm_response,
                                                 st.p.entities),
                              st.p.user_role))

\* a planner that asks the Predictor again after the resolutions
AlwaysAsk(st) == CallPredictor(st, 3)

\* after the resolutions the fast planner builds the plan, the three-call
\* planner asks the Predictor for the route
AfterResolve(st) ==
  IF st.p.use_fast_planner THEN FastBuild(st) ELSE CallPredictor(st, 3)

\* search_entity returned to the loop over the resolutions
Collected(st) ==
  [st EXCEPT !.p.entities = IF st.s.raised THEN @ ELSE @ \o ActionEntities(st.s.result),
             !.p.ri = @ + 1]

\* the loop over the resolutions from resolution ri on, up to the next call
\* of the RecordSearcher: max_results and min_confidence are 5 and 0.5 in
\* the fast planner, the defaults 10 and 0.5 in the other
RECURSIVE Resolve(_)
Entering(st, s0) ==
  IF s0.pc = "done" THEN Resolve(Collected([st EXCEPT !.s = s0]))
  ELSE [st EXCEPT !.s = s0, !.p.pc = "resolving"]

Resolve(st) ==
  IF st.p.ri > Len(st.p.resolutions) THEN AfterResolve(st)
  ELSE Entering(st, search_entity(st.p.store,
                                  st.p.resolutions[st.p.ri].entity_name,
                                  st.p.resolutions[st.p.ri].search_tables,
                                  st.p.resolutions[st.p.ri].search_fields,
                                  IF st.p.use_fast_planner THEN 5 ELSE 10, 500))

\* the RecordSearcher answered and the search goes on or ends
AfterSearch(st) == IF st.s.pc = "done" THEN Resolve(Collected(st)) ELSE st

\* what follows the intent in the three-call planner: no entity, no
\* resolution plan
AfterIntent(st) ==
  IF st.p.intent.entities = <<>> THEN CallPredictor(st, 3) ELSE CallPredictor(st, 2)

\* the reply of the Predictor reached the planner
Replied(st, reply) ==
  IF st.p.use_fast_planner
  THEN Resolve([st EXCEPT !.p.llm_response = FastResponse(reply),
                          !.p.resolutions = Directives(FastResponse(reply).entity_resolution),
                          !.p.ri = 1])
  ELSE IF st.p.stage = 1
  THEN AfterIntent([st EXCEPT !.p.intent = _parse_llm_response(reply)])
  ELSE IF st.p.stage = 2
  THEN Resolve([st EXCEPT !.p.resolutions = _parse_entity_resolution_response(reply),
                          !.p.ri = 1])
  ELSE Planner_Done(st, RouterPlan(st.p.route_patterns,
                                   LegacyBuild(st.p.intent, st.p.entities,
                                               _parse_route_match_response(reply)),
                                   st.p.user_role))

\* analyze ended: an exception of analyze leaves the planner and the router
AfterPredictor(st, answered) ==
  IF answered.raised
  THEN Planner_Done([st EXCEPT !.log = Append(@, PredictorEvent("return", TRUE)),
                               !.p.outcomes = Append(@, answered.kind)],
                    [raised |-> TRUE])
  ELSE Replied([st EXCEPT !.log = Append(@, PredictorEvent("return", FALSE)),
                          !.p.outcomes = Append(@, answered.kind)],
               answered.reply)

\* what the Predictor may do with the call the planner waits for
Outcomes(p) ==
  Failures \cup
    { Json(body) : body \in IF p.use_fast_planner THEN FastAnswers
                            ELSE IF p.stage = 1 THEN IntentAnswers
                            ELSE IF p.stage = 2 THEN ResolutionAnswers
                            ELSE RouteAnswers }

PlannerQuery == "show me Michael's properties"

\* the deployments of the request: roles checked or not, no route declared
PlannerDeployments ==
  { Deployment(AppConfig, "container", FillerOrders, {PlannerQuery}, {PlainUser}, 1, 0, {}),
    Deployment(AppConfig, "injected", FillerOrders, {PlannerQuery}, {PlainUser}, 1, 0, {}),
    Deployment(EmptyConfig, "container", FillerOrders, {PlannerQuery}, {Anonymous}, 1, 0, {}) }

InitPlanner ==
  /\ filler_order = CHOOSE order \in FillerOrders : TRUE
  /\ deployment \in PlannerDeployments
  /\ now = 0
  /\ _request_cache = <<>>
  /\ _request_cache_ttl = <<>>
  /\ _structural_cache = <<>>
  /\ _structural_cache_ttl = <<>>
  /\ tasks = [t \in TaskIds |-> IdleTask]
  /\ clears = 0
  /\ origin_request = <<>>
  /\ origin_structural = <<>>
  /\ NoStudy
  /\ search = [pc |-> "idle"]
  /\ calls = <<>>
  /\ \E backend \in Backends, use_fast_planner \in BOOLEAN, store \in Stores :
       planner = PlannerIdle(backend, use_fast_planner, store)

\* plan_route up to the await of the first Predictor call: both tiers miss
PlanRequest(client) ==
  /\ planner.pc = "idle"
  /\ tasks[1].pc = "idle"
  /\ Probe(1, PlannerQuery, client, request_cache_keys[PlannerQuery][client], {})
  /\ planner' = [planner EXCEPT !.pc = "analyzing", !.stage = 1,
                                !.route_patterns = deployment.route_patterns,
                                !.user_role = client.user_role]
  /\ calls' = Append(calls, PredictorEvent("call", FALSE))
  /\ UNCHANGED <<filler_order, deployment, now, _structural_cache, _structural_cache_ttl,
                 clears, origin_structural, study, search>>

\* the calls of a port in a log
PortCalls(log, port) == { i \in 1..Len(log) : log[i].port = port /\ log[i].event = "call" }

\* the planner moved to st: when it is done plan_route answers, lines 514-664
Proceed(st) ==
  /\ planner' = st.p
  /\ search' = st.s
  /\ calls' = st.log
  /\ IF st.p.pc = "done"
     THEN Complete(1,
                   [tasks[1] EXCEPT !.llm_calls = Cardinality(PortCalls(st.log, "Predictor")),
                                    !.db_calls = Cardinality(PortCalls(st.log, "RecordSearcher")),
                                    !.end_time = now,
                                    !.overtook = Finished, !.clears_at_end = clears],
                   IF st.p.planned.raised THEN [raised |-> TRUE]
                   ELSE Planned(deployment.route_patterns, filler_order, tasks[1].query,
                                st.p.planned))
     ELSE UNCHANGED <<caches, tasks, history>>
  /\ UNCHANGED <<filler_order, deployment, now, clears, study>>

\* the Predictor call ends
PredictorReturns(outcome) ==
  /\ planner.pc = "analyzing"
  /\ Proceed(AfterPredictor([p |-> planner, s |-> search, log |-> calls],
                            analyze(planner.backend, outcome)))

\* the RecordSearcher answers the pending call of the resolver, or fails
PlannerSearcherReturns(fails) ==
  /\ planner.pc = "resolving"
  /\ search.pc = "calling"
  /\ Proceed(AfterSearch([p |-> planner, s |-> AfterAnswer(search, fails),
                          log |-> Append(calls, PendingCall(search, fails))]))

NextPlanner ==
  \/ \E client \in deployment.clients : PlanRequest(client)
  \/ \E outcome \in Outcomes(planner) : PredictorReturns(outcome)
  \/ \E fails \in BOOLEAN : PlannerSearcherReturns(fails)

SpecPlanner == InitPlanner /\ [][NextPlanner]_vars

\* the request got a response, and the confidence of its plan
AnsweredOk == tasks[1].pc = "done"
PlanConfidence == tasks[1].response.action_plan.confidence

\* C15: when the Predictor call exceeds its deadline or fails upstream, for
\* every backend, the plan request still returns success = true with an
\* action plan whose confidence is at most 0.1.
C15_PredictorFailureIsLowConfidence ==
  (planner.pc = "done" /\ planner.use_fast_planner
     /\ planner.outcomes[1] \in {"timeout", "failure"}) =>
    /\ AnsweredOk
    /\ tasks[1].response.success
    /\ PlanConfidence <= 10

\* the Predictor answered the fast planner, with an overall_confidence that
\* is a number in [0, 1]
FastAnswered ==
  /\ planner.pc = "done"
  /\ planner.use_fast_planner
  /\ planner.outcomes = <<"json">>

PredictorConfidence == planner.llm_response.overall_confidence

\* the planner rejected the Predictor's route
PlannerRejected ==
  ~_validate_llm_route(LlmRoute(planner.llm_response), planner.route_patterns)

\* plan_route's _validate_and_fix_route raised on the route of the plan
ServiceRejected ==
  _validate_and_fix_route(planner.planned.plan.route, planner.planned.plan,
                          planner.route_patterns).raised

\* the router denied the route to the caller's role
Denied ==
  /\ Truthy(planner.user_role)
  /\ ~_check_route_permissions(planner.route_patterns, planner.planned.plan.route,
                               planner.user_role[1])

\* C16: when route validation rejects the Predictor's resolved_route the
\* confidence of the returned plan is max(0.1, c - 0.3) for the Predictor's
\* overall_confidence c, the reduction applied once across the planner and
\* the service; when the route is accepted the confidence is c.
C16_ReducedOnce ==
  (FastAnswered /\ AnsweredOk /\ ~Denied /\ PredictorConfidence.kind = "float") =>
    PlanConfidence = IF PlannerRejected \/ ServiceRejected
                     THEN Max2(10, PredictorConfidence.hundredths - 30)
                     ELSE PredictorConfidence.hundredths

\* C17: when the Predictor asks for entity resolution and all four
\* strategies of the resolver find nothing, the plan is returned with no
\* entities and a confidence below the Predictor's overall_confidence.
C17_NoEntityLowersConfidence ==
  (FastAnswered /\ planner.resolutions # <<>> /\ planner.ri > Len(planner.resolutions)
     /\ search.pc = "done" /\ search.attempted = Strategies /\ search.found = <<>>
     /\ planner.entities = <<>> /\ PredictorConfidence.kind = "float") =>
    /\ AnsweredOk
    /\ tasks[1].response.action_plan.entities = <<>>
    /\ PlanConfidence < PredictorConfidence.hundredths

\* C18: whatever the overall_confidence of the Predictor's output (missing,
\* not a number, below 0 or above 1), plan_action returns a plan whose
\* confidence is in [0, 1], 0.5 when the value cannot be parsed, and does
\* not raise.
C18_ConfidenceCoerced ==
  FastAnswered =>
    /\ ~planner.planned.raised
    /\ planner.planned.plan.confidence >= 0
    /\ planner.planned.plan.confidence <= 100
    /\ (PredictorConfidence.kind # "float" /\ ~PlannerRejected /\ ~Denied) =>
         planner.planned.plan.confidence = 50

\* the request called the Predictor once, and called the RecordSearcher
\* only after that call had returned
OnePredictorCallFirst ==
  /\ Cardinality(PortCalls(calls, "Predictor")) = 1
  /\ \A i \in PortCalls(calls, "RecordSearcher") :
       \E j \in 1..(i - 1) :
         /\ calls[j].port = "Predictor"
         /\ calls[j].event = "return"
         /\ \A k \in PortCalls(calls, "Predictor") : k < j

StoredSinceLastClear ==
  /\ DOMAIN _request_cache_ttl = DOMAIN _request_cache
  /\ DOMAIN _structural_cache_ttl = DOMAIN _structural_cache
  /\ \A k \in DOMAIN _request_cache :
       /\ tasks[origin_request[k].by].pc = "done"
       /\ tasks[origin_request[k].by].clears_at_end = clears
  /\ \A k \in DOMAIN _structural_cache :
       /\ tasks[origin_structural[k].by].pc = "done"
       /\ tasks[origin_structural[k].by].clears_at_end = clears

\* C20: clear_cache removes every entry and every expiry record of both
\* tiers in one step with respect to the plan requests in flight: the step
\* that counts the clear leaves the four dicts empty, and in no state does
\* a tier hold an entry stored before the last clear.
C20_ClearIsOneStep ==
  /\ [](StoredSinceLastClear)
  /\ [][clears' # clears =>
          /\ _request_cache' = <<>>
          /\ _request_cache_ttl' = <<>>
          /\ _structural_cache' = <<>>
          /\ _structural_cache_ttl' = <<>>]_vars

\* a request that was in flight when the caches were cleared stored its
\* response afterwards, and the entries of a request that had ended before
\* are gone from both tiers
C20_Witness ==
  /\ clears = 1
  /\ \E t \in TaskIds :
       /\ tasks[t].pc = "done"
       /\ tasks[t].clears_at_start = 0
       /\ tasks[t].clears_at_end = 1
       /\ tasks[t].request_cache_key \in DOMAIN _request_cache
       /\ origin_request[tasks[t].request_cache_key].by = t
  /\ \E u \in TaskIds :
       /\ tasks[u].pc = "done"
       /\ tasks[u].lookup = "absent"
       /\ tasks[u].clears_at_end = 0
       /\ tasks[u].request_cache_key \notin DOMAIN _request_cache
  /\ DOMAIN _structural_cache # {}

(***************************************************************************)
(* C21: what a reader of the tiers sees                                    *)
(***************************************************************************)
\* sum(1 for ttl in ttl_cache.values() if current_time <= ttl)
ActiveEntries(ttl_cache, current_time) ==
  Cardinality({ k \in DOMAIN ttl_cache : current_time <= ttl_cache[k] })

\* sum(1 for ttl in ttl_cache.values() if current_time > ttl)
ExpiredEntries(ttl_cache, current_time) ==
  Cardinality({ k \in DOMAIN ttl_cache : current_time > ttl_cache[k] })

\* get_cache_stats: the counts of one tier, read with no await
TierStats(cache, ttl_cache, current_time) ==
  [total_entries |-> Cardinality(DOMAIN cache),
   active_entries |-> ActiveEntries(ttl_cache, current_time),
   expired_entries |-> ExpiredEntries(ttl_cache, current_time)]

get_cache_stats ==
  [request_cache |-> TierStats(_request_cache, _request_cache_ttl, now),
   structural_cache |-> TierStats(_structural_cache, _structural_cache_ttl, now)]

\* C21: in every state, which is every point where another request can run,
\* the value map and the expiry map of each tier have the same keys, so that
\* the counts get_cache_stats reads from the two maps add up
C21_NoPartialEntry ==
  /\ DOMAIN _request_cache = DOMAIN _request_cache_ttl
  /\ DOMAIN _structural_cache = DOMAIN _structural_cache_ttl
  /\ \A tier \in {get_cache_stats.request_cache, get_cache_stats.structural_cache} :
       tier.total_entries = tier.active_entries + tier.expired_entries

\* a request is in flight while both tiers hold entries, after a lookup has
\* met and removed an expired entry
C21_Witness ==
  /\ InFlight # {}
  /\ \E t \in TaskIds : tasks[t].pc = "done" /\ tasks[t].lookup = "expired"
  /\ _request_cache # <<>>
  /\ _structural_cache # <<>>
  /\ get_cache_stats.structural_cache.total_entries >= 1

(***************************************************************************)
(* C22: the errors of the cache operations                                 *)
(***************************************************************************)
\* what fantastic_router.plan and the validation make of the request of task
\* t, for the answers the Predictor may give: plan_route with
\* caching.enabled false
Uncached(t) ==
  { plan_outcomes[<<deployment.route_patterns, filler_order, tasks[t].query,
                    tasks[t].user_role, llm_response>>] :
      llm_response \in PredictorAnswers(tasks[t].query) }

\* C22: a request whose cache operations raised is not failed by them: it
\* goes on to the planner, and it ends with a plan that plan_route gives
\* with caching absent, failing only where the planner itself raised
C22_CacheErrorsAreMisses ==
  \A t \in TaskIds :
    tasks[t].cache_errors # {} =>
      /\ tasks[t].pc \in {"planning", "done", "failed"}
      /\ tasks[t].pc = "failed" => \E o \in Uncached(t) : o.raised
      /\ tasks[t].pc = "done" =>
           /\ tasks[t].response.performance.cache_type = "none"
           /\ \E o \in Uncached(t) :
                ~o.raised /\ o.response.action_plan = tasks[t].response.action_plan

\* a request has ended with its plan after both its structural probe and
\* its structural store raised
C22_Witness ==
  \E t \in TaskIds :
    /\ tasks[t].pc = "done"
    /\ {"apply", "store"} \subseteq tasks[t].cache_errors
    /\ tasks[t].response.success

(***************************************************************************)
(* C23: the structural key of a route and the route rebuilt from it        *)
(***************************************************************************)
MaxEntities == 2

StudyIds == {"m-1", "10", "0"}

StudyQueries == {"show me Michael's properties", "unit 10"}

\* a resolved entity of an action plan
StudyEntity(id) == [id |-> id, name |-> "Michael", table |-> "users", confidence |-> 95]

RoundTripInputs ==
  { [query |-> query,
     route |-> "/landlords/" \o id \o "/properties",
     entities |-> [i \in DOMAIN ids |-> StudyEntity(ids[i])]] :
      query \in StudyQueries, id \in StudyIds,
      ids \in UNION { [1..m -> StudyIds] : m \in 0..MaxEntities } }

InitRoundTrip ==
  /\ filler_order \in FillerOrders
  /\ ServiceIdle
  /\ arg \in { x \in RoundTripInputs : _validate_route(x.route, AppConfig).is_valid }
  /\ res = <<>>
  /\ step = 0
  /\ NoPorts

\* _extract_structural_pattern: (structural_key, entity_mapping)
EncodeRoute ==
  /\ step = 0
  /\ res' = <<_extract_structural_pattern(filler_order, arg.query,
                                          [route |-> arg.route, entities |-> arg.entities])>>
  /\ step' = 1
  /\ UNCHANGED <<filler_order, deployment, now, caches, tasks, clears, history, arg, ports>>

\* the loop of _apply_structural_cache over entity_mapping, on the route of
\* the key
DecodeRoute ==
  /\ step = 1
  /\ HasBar(res[1][1])
  /\ res' = Append(res, ReplacePlaceholders(PatternRouteOf(res[1][1]), res[1][2], 1))
  /\ step' = 2
  /\ UNCHANGED <<filler_order, deployment, now, caches, tasks, clears, history, arg, ports>>

NextRoundTrip == EncodeRoute \/ DecodeRoute

SpecRoundTrip == InitRoundTrip /\ [][NextRoundTrip]_vars

\* C23: the route rebuilt from the templated route and the entity mapping is
\* the route the key was made from
C23_RoundTrip ==
  step = 2 => res[2] = arg.route

(***************************************************************************)
(* C24: the two route validators against the templates, segment by segment *)
(***************************************************************************)
ValidatorRoutes ==
  { "/admin/users", "/foo/users", "/landlords/search", "/landlords/m-1/properties",
    "/landlords/m-1/overview", "/admin/users/", "/admin//users", "landlords/search",
    "/", "", "/admin", "/reports/2024/q1/summary", "/landlords/{entity_id}/properties" }

ValidatorConfigs ==
  { AppConfig, DefaultConfig, EmptyConfig, <<P_admin>>, <<P_search>>,
    <<[pattern |-> "", name |-> "blank", required_roles |-> <<>>], P_admin>> }

InitValidators ==
  /\ filler_order \in FillerOrders
  /\ ServiceIdle
  /\ arg \in { [route |-> route, route_patterns |-> config] :
                 route \in ValidatorRoutes, config \in ValidatorConfigs }
  /\ res = <<>>
  /\ step = 0
  /\ NoPorts

\* the service's validator on the route
ServiceValidates ==
  /\ step = 0
  /\ res' = <<_validate_route(arg.route, arg.route_patterns).is_valid>>
  /\ step' = 1
  /\ UNCHANGED <<filler_order, deployment, now, caches, tasks, clears, history, arg, ports>>

\* the planner's validator on the same route
PlannerValidates ==
  /\ step = 1
  /\ res' = Append(res, _validate_llm_route(arg.route, arg.route_patterns))
  /\ step' = 2
  /\ UNCHANGED <<filler_order, deployment, now, caches, tasks, clears, history, arg, ports>>

NextValidators == ServiceValidates \/ PlannerValidates

SpecValidators == InitValidators /\ [][NextValidators]_vars

\* a template segment of the form {name}
IsNameSegment(segment) == startswith(segment, "{") /\ endswith(segment, "}")

\* the template has as many segments as the route, its literal segments are
\* the route's, and its {name} segments stand against non-empty segments
SegmentsConform(route, pattern) ==
  LET route_segments == split_char(route, "/")
      pattern_segments == split_char(pattern, "/")
  IN /\ Len(route_segments) = Len(pattern_segments)
     /\ \A i \in 1..Len(route_segments) :
          IF IsNameSegment(pattern_segments[i])
          THEN route_segments[i] # ""
          ELSE route_segments[i] = pattern_segments[i]

\* C24: both validators accept the route exactly when it starts with "/" and
\* some declared template conforms to it segment by segment
C24_SegmentwiseVerdict ==
  step = 2 =>
    /\ res[1] = res[2]
    /\ res[1] = (/\ startswith(arg.route, "/")
                 /\ \E i \in 1..Len(arg.route_patterns) :
                      SegmentsConform(arg.route, arg.route_patterns[i].pattern))

(***************************************************************************)
(* C25: the repair of a rejected route                                     *)
(***************************************************************************)
RepairRoutes ==
  { "/reports/2024/q1/summary", "/landlords/org/7/properties",
    "/landlords/m-1/properties", "landlords" }

RepairEntities ==
  { <<>>,
    <<[id |-> "m-1", name |-> "Michael", table |-> "users", confidence |-> 95]>>,
    <<[id |-> "org/7", name |-> "Pat", table |-> "leases", confidence |-> 80]>>,
    <<[id |-> "org/7", name |-> "Pat", table |-> "leases", confidence |-> 80],
      [id |-> "m-1", name |-> "Michael", table |-> "users", confidence |-> 95]>> }

RepairConfigs == { AppConfig, DefaultConfig, EmptyConfig, <<P_search>>, <<P_admin>> }

InitRepair ==
  /\ filler_order \in FillerOrders
  /\ ServiceIdle
  /\ arg \in { [route |-> route, entities |-> entities, route_patterns |-> config] :
                 route \in RepairRoutes, entities \in RepairEntities,
                 config \in RepairConfigs }
  /\ res = <<>>
  /\ step = 0
  /\ NoPorts

\* the planner's fallback for the configuration
PlannerFallsBack ==
  /\ step = 0
  /\ res' = <<_get_fallback_route(arg.route_patterns)>>
  /\ step' = 1
  /\ UNCHANGED <<filler_order, deployment, now, caches, tasks, clears, history, arg, ports>>

\* the service's _validate_and_fix_route on the route
ServiceRepairs ==
  /\ step = 1
  /\ res' = Append(res, _validate_and_fix_route(arg.route, [entities |-> arg.entities],
                                                arg.route_patterns))
  /\ step' = 2
  /\ UNCHANGED <<filler_order, deployment, now, caches, tasks, clears, history, arg, ports>>

NextRepair == PlannerFallsBack \/ ServiceRepairs

SpecRepair == InitRepair /\ [][NextRepair]_vars

\* the candidates in the order of the statement: the overview of the first
\* resolved entity, the first declared search pattern, the first declared
\* pattern with the default values
OverviewCandidate(entities) ==
  IF Len(entities) > 0
  THEN <<"/" \o entity_type_of_table(entities[1].table) \o "/" \o entities[1].id
             \o "/overview">>
  ELSE <<>>

SearchCandidate(route_patterns) ==
  LET searches == SelectSeq(route_patterns, LAMBDA p : Contains(p.pattern, "search"))
  IN IF Len(searches) > 0
     THEN <<replace(searches[1].pattern, "{entity_type}", "landlords")>>
     ELSE <<>>

DefaultsCandidate(route_patterns) ==
  IF Len(route_patterns) > 0
  THEN <<replace(replace(replace(route_patterns[1].pattern, "{entity_type}", "landlords"),
                         "{entity_id}", "search"),
                 "{view_type}", "overview")>>
  ELSE <<>>

RepairCandidates(entities, route_patterns) ==
  SelectSeq(OverviewCandidate(entities) \o SearchCandidate(route_patterns)
              \o DefaultsCandidate(route_patterns),
            LAMBDA c : _validate_route(c, route_patterns).is_valid)

\* C25: a rejected route is replaced by the first candidate that validates,
\* and the repair fails only when no candidate does
C25_FirstValidCandidate ==
  (step = 2 /\ ~_validate_route(arg.route, arg.route_patterns).is_valid) =>
     LET candidates == RepairCandidates(arg.entities, arg.route_patterns)
     IN IF Len(candidates) > 0
        THEN ~res[2].raised /\ res[2].route = candidates[1]
        ELSE res[2].raised

(***************************************************************************)
(* C26: expired entries and the lookups that meet them                     *)
(***************************************************************************)
\* the requests whose structural walk went over every key of the tier
Walked == { t \in TaskIds : /\ tasks[t].pc # "idle"
                            /\ tasks[t].lookup # "live"
                            /\ "split" \notin tasks[t].cache_errors }

\* no entry of the request tier had expired when a request looked its key up
RequestTierEvicts ==
  \A t \in TaskIds :
    (tasks[t].pc # "idle" /\ tasks[t].request_cache_key \in DOMAIN _request_cache)
      => tasks[t].start_time <= _request_cache_ttl[tasks[t].request_cache_key]

\* no entry of the structural tier had expired when a request walked the keys
StructuralTierEvicts ==
  \A t \in Walked : \A k \in DOMAIN _structural_cache :
    tasks[t].start_time <= _structural_cache_ttl[k]

\* C26: in both tiers an entry that a lookup met expired is gone from the
\* value dict and the expiry dict after that lookup
C26_ExpiredEntryRemoved ==
  RequestTierEvicts /\ StructuralTierEvicts

(***************************************************************************)
(* C27: ENTITY_ID_PLACEHOLDER in the plan the planner builds               *)
(***************************************************************************)
\* the person's view with the placeholder in the route and no parameter
BareRouteAnswer == [PersonAnswer("Michael") EXCEPT !.parameters = <<>>]

\* the person's view with the placeholder inside a longer parameter value
PrefixedValueAnswer ==
  [PersonAnswer("Michael") EXCEPT
     !.parameters = <<[name |-> "entity_id", value |-> "id:ENTITY_ID_PLACEHOLDER",
                       source |-> "entity"]>>]

BuildAnswers ==
  { PersonAnswer("Michael"), BareRouteAnswer, PrefixedValueAnswer, HallucinatedAnswer,
    AdminAnswer, TemplateAnswer, OverconfidentAnswer }

InitBuild ==
  /\ filler_order \in FillerOrders
  /\ ServiceIdle
  /\ arg \in { [llm_response |-> llm_response, entities |-> entities,
                route_patterns |-> config] :
                 llm_response \in BuildAnswers, entities \in RepairEntities,
                 config \in RepairConfigs }
  /\ res = <<>>
  /\ step = 0
  /\ NoPorts

\* SingleCallActionPlanner._build_action_plan on the answer and the entities
BuildsPlan ==
  /\ step = 0
  /\ res' = <<_build_action_plan(arg.route_patterns, arg.llm_response, arg.entities)>>
  /\ step' = 1
  /\ UNCHANGED <<filler_order, deployment, now, caches, tasks, clears, history, arg, ports>>

NextBuild == BuildsPlan

SpecBuild == InitBuild /\ [][NextBuild]_vars

\* C27: with an entity resolved, the plan that was built has the placeholder
\* neither in its route nor in the value of any of its parameters
C27_NoPlaceholderLeft ==
  (step = 1 /\ Len(arg.entities) > 0 /\ ~res[1].raised) =>
     /\ ~Contains(res[1].plan.route, "ENTITY_ID_PLACEHOLDER")
     /\ \A i \in 1..Len(res[1].plan.parameters) :
          ~Contains(res[1].plan.parameters[i].value, "ENTITY_ID_PLACEHOLDER")

(***************************************************************************)
(* C28: whose response a cache hit returns                                 *)
(***************************************************************************)
\* the requests that were answered from a cache tier
ServedFromCache ==
  { t \in TaskIds : /\ tasks[t].pc = "done"
                    /\ tasks[t].response.performance.cache_type \in {"request", "structural"} }

\* C28: a response answered from a cache tier was computed for a request of
\* the same user_id and the same user_role as the request it answers
C28_HitIsForSameUser ==
  \A t \in ServedFromCache :
    /\ tasks[t].response.metadata.user_id = tasks[t].user_id
    /\ tasks[t].response.metadata.user_role = tasks[t].user_role
    /\ tasks[t].served.by \in TaskIds
    /\ tasks[tasks[t].served.by].user_id = tasks[t].user_id
    /\ tasks[tasks[t].served.by].user_role = tasks[t].user_role

\* a request was answered from the request tier while the tier held the
\* response to the same query for another role
C28_Witness ==
  \E t \in ServedFromCache : \E k \in DOMAIN _request_cache :
    /\ k # tasks[t].request_cache_key
    /\ _request_cache[k].metadata.user_role # tasks[t].user_role
    /\ k[1] = tasks[t].request_cache_key[1]

(***************************************************************************)
(* C29: which instance of a match deduplication keeps                      *)
(***************************************************************************)
\* the matches the strategies collected for the same table and id
Instances(match) ==
  { i \in 1..Len(search.all_matches) :
      /\ search.all_matches[i].table = match.table
      /\ search.all_matches[i].id = match.id }

\* C29: a returned match has the highest confidence of the instances found
\* for its table and id, and no returned match is below min_confidence
C29_KeepsHighest ==
  Returned =>
    \A r \in 1..Len(search.result) :
      /\ search.result[r].confidence >= search.min_confidence
      /\ \A i \in Instances(search.result[r]) :
           search.result[r].confidence >= search.all_matches[i].confidence

\* C29: the instance kept is the first one collected, and no returned match
\* is below min_confidence
C29_KeepsFirst ==
  Returned =>
    \A r \in 1..Len(search.result) :
      /\ search.result[r].confidence >= search.min_confidence
      /\ search.result[r] = search.all_matches[Min(Instances(search.result[r]))]

\* a search has returned a match that two strategies had collected with
\* different confidences, the lower one later
C29_Witness ==
  /\ Returned
  /\ \E r \in 1..Len(search.result) : \E i \in Instances(search.result[r]) :
       /\ i > Min(Instances(search.result[r]))
       /\ search.all_matches[i].confidence < search.result[r].confidence

(***************************************************************************)
(* C30: the plan of a failed Predictor call and the cache tiers            *)
(***************************************************************************)
\* a Predictor call of the request ended in a timeout or an upstream failure
\* and the request was answered with a plan all the same
FailurePlanAnswered ==
  /\ planner.pc = "done"
  /\ AnsweredOk
  /\ \E i \in 1..Len(planner.outcomes) : planner.outcomes[i] \in {"timeout", "failure"}

\* C30: the response built from the error-shaped result is in neither tier:
\* the lookup of an identical request made now misses, and no structural
\* entry was stored
C30_FailurePlanNotStored ==
  FailurePlanAnswered =>
    /\ ~_get_cached_response(_request_cache, _request_cache_ttl,
                             tasks[1].request_cache_key, now).found
    /\ _structural_cache = <<>>

====
